---- MODULE Spec2Model ----
(***************************************************************************)
(* Model of the annotation tag store of the throwsage viewer               *)
(* (src/Rob22_small/viewer.js, module "tagger": lines 3468-3881).          *)
(*                                                                         *)
(* The tag store is a JavaScript module whose state is a set of top-level  *)
(* bindings.  Every exported operation is modelled twice:                  *)
(*   - as an operator  op(s, args)  from a store state s (a record holding *)
(*     every binding, the browser's localStorage and the value returned by *)
(*     the call) to the store state after the call, and                    *)
(*   - as an action that applies that operator to the current state.       *)
(* JavaScript values are represented as follows:                           *)
(*   null (number-valued binding)   Null                                   *)
(*   null (object-valued binding)   NullObj                                *)
(*   undefined (number / object)    Undefined / UndefinedObj               *)
(*   array                          sequence (index 0 of JS is index 1)    *)
(*   returned toast string          string; a returned null is NullRet     *)
(*   {ok: true} / {ok: false, error: m}   "ok" / "error: m"                *)
(***************************************************************************)
EXTENDS Integers, Sequences, FiniteSets, TLC

\* ------------------------------------------------------------------ bounds
MaxFrame == 2
MaxCalls == 2

Frames == 0..MaxFrame
\* pixel positions of the clicks (canvas coordinates)
Points == {[x |-> 3, y |-> 7], [x |-> 5, y |-> 2]}
\* angles and ellipse parameters the callers pass; stand-ins for the finite
\* numbers of the program.  An angle is given in whole degrees: d stands for
\* the program's d * Math.PI / 180 radians.
Angles == {0, 90}
Basenames == {"a", "b"}

\* ------------------------------------------------------- JavaScript values
Null == -1
Undefined == -2
NullObj == [isNull |-> TRUE]
UndefinedObj == [isUndefined |-> TRUE]
NullRet == "null"

Ellipses ==
  { [cx |-> 1, cy |-> 1, major |-> 20, minor |-> 20, rotation |-> 0],
    [cx |-> 2, cy |-> 1, major |-> 30, minor |-> 20, rotation |-> 90] }

\* ------------------------------------------------------------ Array helpers
\* Array.prototype.indexOf: 0-based index of the first occurrence, else -1
indexOf(a, v) ==
  IF \E i \in 1..Len(a) : a[i] = v
    THEN (CHOOSE i \in 1..Len(a) : a[i] = v /\ \A j \in 1..(i - 1) : a[j] # v) - 1
    ELSE -1

\* Array.prototype.includes
includes(a, v) == \E i \in 1..Len(a) : a[i] = v

\* Array.prototype.findIndex(m => m.frame === frame)
findIndexFrame(a, frame) ==
  IF \E i \in 1..Len(a) : a[i].frame = frame
    THEN (CHOOSE i \in 1..Len(a) :
            a[i].frame = frame /\ \A j \in 1..(i - 1) : a[j].frame # frame) - 1
    ELSE -1

\* Array.prototype.splice(idx, 1) with a 0-based idx
splice1(a, idx) ==
  [k \in 1..(Len(a) - 1) |-> IF k <= idx THEN a[k] ELSE a[k + 1]]

\* Array.prototype.sort((a, b) => a - b): stable ascending sort
sortNum(a) ==
  LET pos(i) == Cardinality({j \in 1..Len(a) :
                    a[j] < a[i] \/ (a[j] = a[i] /\ j < i)}) + 1
  IN  [k \in 1..Len(a) |-> a[CHOOSE i \in 1..Len(a) : pos(i) = k]]

\* Array.prototype.sort((a, b) => a.frame - b.frame): stable sort by frame
sortByFrame(a) ==
  LET pos(i) == Cardinality({j \in 1..Len(a) :
                    a[j].frame < a[i].frame
                    \/ (a[j].frame = a[i].frame /\ j < i)}) + 1
  IN  [k \in 1..Len(a) |-> a[CHOOSE i \in 1..Len(a) : pos(i) = k]]

\* Array.prototype.filter(f => f !== v)
RECURSIVE filterNe(_, _)
filterNe(a, v) ==
  IF a = <<>> THEN <<>>
  ELSE IF Head(a) # v THEN <<Head(a)>> \o filterNe(Tail(a), v)
  ELSE filterNe(Tail(a), v)

\* Array.prototype.filter(f => f < v) and filter(f => f > v)
RECURSIVE filterLt(_, _)
filterLt(a, v) ==
  IF a = <<>> THEN <<>>
  ELSE IF Head(a) < v THEN <<Head(a)>> \o filterLt(Tail(a), v)
  ELSE filterLt(Tail(a), v)

RECURSIVE filterGt(_, _)
filterGt(a, v) ==
  IF a = <<>> THEN <<>>
  ELSE IF Head(a) > v THEN <<Head(a)>> \o filterGt(Tail(a), v)
  ELSE filterGt(Tail(a), v)

\* ------------------------------------------------------------------- state
VARIABLES
  throwStart, release, turnBoundaries, ssBoundaries, dsBoundaries,
  ballMarkers, ballMode, circleDegZero, circleZeroMode, circleEllipse,
  circleZeroDegAngle, dirty,
  undoStack, _totalFrames, _basename,
  localStorage,   \* the browser's key-value store: key -> document or NullObj
  last,           \* the last call: [op, frame, ret]
  calls,          \* number of calls made so far in the modelled run
  annot,          \* the annotation tool (controller of the tag store)
  viewer,         \* the 3D viewer
  app,            \* the tagger app (controller of the tag store)
  fit             \* a call of fitEllipse: [points, result]

tagFields == <<throwStart, release, turnBoundaries, ssBoundaries, dsBoundaries,
               ballMarkers, circleDegZero, circleEllipse, circleZeroDegAngle>>
vars == <<throwStart, release, turnBoundaries, ssBoundaries, dsBoundaries,
          ballMarkers, ballMode, circleDegZero, circleZeroMode, circleEllipse,
          circleZeroDegAngle, dirty, undoStack, _totalFrames, _basename,
          localStorage, last, calls, annot, viewer, app, fit>>

\* the bindings of the tag store, and the state of the tools around it
storeVars == <<throwStart, release, turnBoundaries, ssBoundaries, dsBoundaries,
               ballMarkers, ballMode, circleDegZero, circleZeroMode,
               circleEllipse, circleZeroDegAngle, dirty, undoStack,
               _totalFrames, _basename, localStorage>>
toolVars == <<annot, viewer, app, fit>>

\* the store state as one record
Store ==
  [throwStart |-> throwStart, release |-> release,
   turnBoundaries |-> turnBoundaries, ssBoundaries |-> ssBoundaries,
   dsBoundaries |-> dsBoundaries, ballMarkers |-> ballMarkers,
   ballMode |-> ballMode, circleDegZero |-> circleDegZero,
   circleZeroMode |-> circleZeroMode, circleEllipse |-> circleEllipse,
   circleZeroDegAngle |-> circleZeroDegAngle, dirty |-> dirty,
   undoStack |-> undoStack, _totalFrames |-> _totalFrames,
   _basename |-> _basename, localStorage |-> localStorage, ret |-> last.ret]

\* the annotation record held by a store state
Record(s) ==
  [throwStart |-> s.throwStart, release |-> s.release,
   turnBoundaries |-> s.turnBoundaries, ssBoundaries |-> s.ssBoundaries,
   dsBoundaries |-> s.dsBoundaries, ballMarkers |-> s.ballMarkers,
   circleDegZero |-> s.circleDegZero, circleEllipse |-> s.circleEllipse,
   circleZeroDegAngle |-> s.circleZeroDegAngle]

\* the module-level bindings right after the module is evaluated
ModuleInit(storage) ==
  [throwStart |-> Null, release |-> Null,
   turnBoundaries |-> <<>>, ssBoundaries |-> <<>>, dsBoundaries |-> <<>>,
   ballMarkers |-> <<>>, ballMode |-> FALSE, circleDegZero |-> NullObj,
   circleZeroMode |-> FALSE, circleEllipse |-> NullObj,
   circleZeroDegAngle |-> Null, dirty |-> FALSE,
   undoStack |-> <<>>, _totalFrames |-> 0, _basename |-> "",
   localStorage |-> storage, ret |-> NullRet]

\* init(totalFrames, basename)
init(s, totalFrames, basename) ==
  [s EXCEPT !._totalFrames = totalFrames, !._basename = basename]

\* ------------------------------------------------------------------- query
getTurnLabel_allTurns(s, frame) ==
  "T" \o ToString(indexOf(s.turnBoundaries, frame) + 1)

\* getTurnLabel(frame)
getTurnLabel(s, frame) ==
  IF s.throwStart = Null
    THEN "T" \o ToString(indexOf(s.turnBoundaries, frame) + 1)
    ELSE LET winds == filterLt(s.turnBoundaries, s.throwStart)
             turns == filterGt(s.turnBoundaries, s.throwStart)
             wIdx  == indexOf(winds, frame)
             tIdx  == indexOf(turns, frame)
         IN  IF wIdx >= 0 THEN "W" \o ToString(wIdx + 1)
             ELSE IF tIdx >= 0 THEN "T" \o ToString(tIdx + 1)
             ELSE "?"

\* tagsAtFrame(frame)
tagsAtFrame(s, frame) ==
  [isT0 |-> s.throwStart = frame,
   isRelease |-> s.release = frame,
   isTurn |-> includes(s.turnBoundaries, frame),
   isSS |-> includes(s.ssBoundaries, frame),
   isDS |-> includes(s.dsBoundaries, frame),
   isBall |-> \E i \in 1..Len(s.ballMarkers) : s.ballMarkers[i].frame = frame]

\* getBallAt(frame)
getBallAt(s, frame) ==
  IF findIndexFrame(s.ballMarkers, frame) >= 0
    THEN s.ballMarkers[findIndexFrame(s.ballMarkers, frame) + 1]
    ELSE NullObj

\* ------------------------------------------------------------- tag actions
\* setT0(frame)
setT0(s, frame) ==
  [s EXCEPT
     !.undoStack = Append(@, [type |-> "throw_start", prev |-> s.throwStart]),
     !.throwStart = frame,
     !.dirty = TRUE,
     !.ret = "T0 -> frame " \o ToString(frame)]

setRelease_keepClean(s, frame) ==
  [s EXCEPT
     !.undoStack = Append(@, [type |-> "release", prev |-> s.release]),
     !.release = frame,
     !.ret = "Release -> frame " \o ToString(frame)]

\* setRelease(frame)
setRelease(s, frame) ==
  [s EXCEPT
     !.undoStack = Append(@, [type |-> "release", prev |-> s.release]),
     !.release = frame,
     !.dirty = TRUE,
     !.ret = "Release -> frame " \o ToString(frame)]

addTurn_noT0Check(s, frame) ==
  IF includes(s.turnBoundaries, frame) THEN [s EXCEPT !.ret = NullRet]
  ELSE LET s1 == [s EXCEPT
                    !.undoStack = Append(@, [type |-> "turn_add", frame |-> frame]),
                    !.turnBoundaries = sortNum(Append(@, frame)),
                    !.dirty = TRUE]
       IN  [s1 EXCEPT !.ret = getTurnLabel(s1, frame) \o " -> frame " \o ToString(frame)]

addTurn_noSort(s, frame) ==
  IF frame = s.throwStart THEN [s EXCEPT !.ret = NullRet]
  ELSE IF includes(s.turnBoundaries, frame) THEN [s EXCEPT !.ret = NullRet]
  ELSE LET s1 == [s EXCEPT
                    !.undoStack = Append(@, [type |-> "turn_add", frame |-> frame]),
                    !.turnBoundaries = Append(@, frame),
                    !.dirty = TRUE]
       IN  [s1 EXCEPT !.ret = getTurnLabel(s1, frame) \o " -> frame " \o ToString(frame)]

\* addTurn(frame)
addTurn(s, frame) ==
  IF frame = s.throwStart THEN [s EXCEPT !.ret = NullRet]
  ELSE IF includes(s.turnBoundaries, frame) THEN [s EXCEPT !.ret = NullRet]
  ELSE LET s1 == [s EXCEPT
                    !.undoStack = Append(@, [type |-> "turn_add", frame |-> frame]),
                    !.turnBoundaries = sortNum(Append(@, frame)),
                    !.dirty = TRUE]
       IN  [s1 EXCEPT !.ret = getTurnLabel(s1, frame) \o " -> frame " \o ToString(frame)]

\* addSS(frame)
addSS(s, frame) ==
  IF includes(s.ssBoundaries, frame) THEN [s EXCEPT !.ret = NullRet]
  ELSE LET dsIdx == indexOf(s.dsBoundaries, frame)
       IN  [s EXCEPT
              !.undoStack = Append(@, [type |-> "ss_add", frame |-> frame]),
              !.ssBoundaries = sortNum(Append(@, frame)),
              !.dsBoundaries = IF dsIdx >= 0 THEN splice1(@, dsIdx) ELSE @,
              !.dirty = TRUE,
              !.ret = "SS -> frame " \o ToString(frame)]

addDS_keepSS(s, frame) ==
  IF includes(s.dsBoundaries, frame) THEN [s EXCEPT !.ret = NullRet]
  ELSE [s EXCEPT
          !.undoStack = Append(@, [type |-> "ds_add", frame |-> frame]),
          !.dsBoundaries = sortNum(Append(@, frame)),
          !.dirty = TRUE,
          !.ret = "DS -> frame " \o ToString(frame)]

\* addDS(frame)
addDS(s, frame) ==
  IF includes(s.dsBoundaries, frame) THEN [s EXCEPT !.ret = NullRet]
  ELSE LET ssIdx == indexOf(s.ssBoundaries, frame)
       IN  [s EXCEPT
              !.undoStack = Append(@, [type |-> "ds_add", frame |-> frame]),
              !.dsBoundaries = sortNum(Append(@, frame)),
              !.ssBoundaries = IF ssIdx >= 0 THEN splice1(@, ssIdx) ELSE @,
              !.dirty = TRUE,
              !.ret = "DS -> frame " \o ToString(frame)]

\* toggleBallMode()
toggleBallMode_keepZeroMode(s) ==
  LET on == ~s.ballMode
  IN  [s EXCEPT
         !.ballMode = on,
         !.ret = IF on THEN "Ball mode ON - click video to mark" ELSE "Ball mode OFF"]

toggleBallMode(s) ==
  LET on == ~s.ballMode
  IN  [s EXCEPT
         !.ballMode = on,
         !.circleZeroMode = IF on THEN FALSE ELSE @,
         !.ret = IF on THEN "Ball mode ON - click video to mark" ELSE "Ball mode OFF"]

addBall_keepExisting(s, frame, x, y) ==
  LET existing == findIndexFrame(s.ballMarkers, frame)
      prev == IF existing >= 0 THEN s.ballMarkers[existing + 1] ELSE NullObj
  IN  [s EXCEPT
         !.undoStack = Append(@, [type |-> "ball_add", frame |-> frame, prev |-> prev]),
         !.ballMarkers = sortByFrame(Append(@, [frame |-> frame, x |-> x, y |-> y])),
         !.dirty = TRUE,
         !.ret = "Ball -> frame " \o ToString(frame)
                   \o " (" \o ToString(x) \o ", " \o ToString(y) \o ")"]

\* addBall(frame, x, y)
addBall(s, frame, x, y) ==
  LET existing == findIndexFrame(s.ballMarkers, frame)
      prev == IF existing >= 0 THEN s.ballMarkers[existing + 1] ELSE NullObj
      removed == IF existing >= 0 THEN splice1(s.ballMarkers, existing)
                 ELSE s.ballMarkers
  IN  [s EXCEPT
         !.undoStack = Append(@, [type |-> "ball_add", frame |-> frame, prev |-> prev]),
         !.ballMarkers = sortByFrame(Append(removed, [frame |-> frame, x |-> x, y |-> y])),
         !.dirty = TRUE,
         !.ret = "Ball -> frame " \o ToString(frame)
                   \o " (" \o ToString(x) \o ", " \o ToString(y) \o ")"]

\* toggleCircleZeroMode()
toggleCircleZeroMode(s) ==
  LET on == ~s.circleZeroMode
  IN  [s EXCEPT
         !.circleZeroMode = on,
         !.ballMode = IF on THEN FALSE ELSE @,
         !.ret = IF on THEN "0deg mode ON - click circle edge" ELSE "0deg mode OFF"]

\* setCircleZeroPoint(x, y)
setCircleZeroPoint(s, x, y) ==
  [s EXCEPT
     !.undoStack = Append(@, [type |-> "circle_zero", prev |-> s.circleDegZero]),
     !.circleDegZero = [x |-> x, y |-> y],
     !.dirty = TRUE,
     !.ret = "0deg -> (" \o ToString(x) \o ", " \o ToString(y) \o ")"]

\* setCircleEllipse(params); params is an ellipse or NullObj
setCircleEllipse(s, params) ==
  [s EXCEPT
     !.undoStack = Append(@, [type |-> "circle_ellipse", prev |-> s.circleEllipse]),
     !.circleEllipse = params,
     !.dirty = TRUE,
     !.ret = IF params = NullObj THEN "Cleared circle ellipse"
             ELSE "Circle -> (" \o ToString(params.cx) \o ", " \o ToString(params.cy)
                    \o ") r=" \o ToString(params.major) \o "x" \o ToString(params.minor)]

\* clearCircleEllipse()
clearCircleEllipse(s) == setCircleEllipse(s, NullObj)

\* (angle * 180 / Math.PI).toFixed(1), for an angle of whole degrees
toFixed1Degrees(angle) == ToString(angle) \o ".0"

\* setCircleZeroDegAngle(angle); angle is a number or Null
setCircleZeroDegAngle(s, angle) ==
  [s EXCEPT
     !.undoStack = Append(@, [type |-> "circle_zero_deg_angle",
                              prev |-> s.circleZeroDegAngle]),
     !.circleZeroDegAngle = angle,
     !.dirty = TRUE,
     !.ret = IF angle = Null THEN "Cleared 0deg angle"
             ELSE "0deg angle -> " \o toFixed1Degrees(angle) \o "deg"]

\* -------------------------------------------------------------------- undo
\* case 'throw_start' / case 'release'
undoThrowStart(s, action) == [s EXCEPT !.throwStart = action.prev, !.ret = "Undo: T0"]
undoRelease(s, action) == [s EXCEPT !.release = action.prev, !.ret = "Undo: Release"]

\* case 'turn_add'
undoTurnAdd(s, action) ==
  LET idx == indexOf(s.turnBoundaries, action.frame)
  IN  [s EXCEPT !.turnBoundaries = IF idx >= 0 THEN splice1(@, idx) ELSE @,
                !.ret = "Undo: Turn"]

\* case 'ss_add'
undoSSAdd(s, action) ==
  LET idx == indexOf(s.ssBoundaries, action.frame)
  IN  [s EXCEPT !.ssBoundaries = IF idx >= 0 THEN splice1(@, idx) ELSE @,
                !.ret = "Undo: SS"]

\* case 'ds_add'
undoDSAdd(s, action) ==
  LET idx == indexOf(s.dsBoundaries, action.frame)
  IN  [s EXCEPT !.dsBoundaries = IF idx >= 0 THEN splice1(@, idx) ELSE @,
                !.ret = "Undo: DS"]

\* case 'circle_zero' / 'circle_ellipse' / 'circle_zero_deg_angle'
undoCircleZero(s, action) ==
  [s EXCEPT !.circleDegZero = action.prev, !.ret = "Undo: 0deg"]
undoCircleEllipse(s, action) ==
  [s EXCEPT !.circleEllipse = action.prev, !.ret = "Undo: Circle Ellipse"]
undoCircleZeroDegAngle(s, action) ==
  [s EXCEPT !.circleZeroDegAngle = action.prev, !.ret = "Undo: 0deg Angle"]

\* case 'ball_add'
undoBallAdd(s, action) ==
  LET idx == findIndexFrame(s.ballMarkers, action.frame)
      removed == IF idx >= 0 THEN splice1(s.ballMarkers, idx) ELSE s.ballMarkers
  IN  [s EXCEPT !.ballMarkers = IF action.prev # NullObj
                                  THEN sortByFrame(Append(removed, action.prev))
                                  ELSE removed,
                !.ret = "Undo: Ball"]

undoDelete_noSort(s, action) ==
  LET tags == action.tags
  IN  [s EXCEPT
         !.throwStart = IF tags.throwStart # Undefined THEN tags.throwStart ELSE @,
         !.release = IF tags.release # Undefined THEN tags.release ELSE @,
         !.turnBoundaries = IF tags.turn THEN Append(@, action.frame) ELSE @,
         !.ssBoundaries = IF tags.ss THEN Append(@, action.frame) ELSE @,
         !.dsBoundaries = IF tags.ds THEN Append(@, action.frame) ELSE @,
         !.ballMarkers = IF tags.ball # UndefinedObj
                           THEN Append(@, tags.ball) ELSE @,
         !.ret = "Undo: Delete"]

\* case 'delete'; in tags an absent key is Undefined / FALSE / UndefinedObj
undoDelete(s, action) ==
  LET tags == action.tags
  IN  [s EXCEPT
         !.throwStart = IF tags.throwStart # Undefined THEN tags.throwStart ELSE @,
         !.release = IF tags.release # Undefined THEN tags.release ELSE @,
         !.turnBoundaries = IF tags.turn THEN sortNum(Append(@, action.frame)) ELSE @,
         !.ssBoundaries = IF tags.ss THEN sortNum(Append(@, action.frame)) ELSE @,
         !.dsBoundaries = IF tags.ds THEN sortNum(Append(@, action.frame)) ELSE @,
         !.ballMarkers = IF tags.ball # UndefinedObj
                           THEN sortByFrame(Append(@, tags.ball)) ELSE @,
         !.ret = "Undo: Delete"]

\* undo()
undo(s) ==
  IF Len(s.undoStack) = 0 THEN [s EXCEPT !.ret = NullRet]
  ELSE LET action == s.undoStack[Len(s.undoStack)]
           s1 == [s EXCEPT !.undoStack = SubSeq(@, 1, Len(@) - 1), !.dirty = TRUE]
       IN  CASE action.type = "throw_start" -> undoThrowStart(s1, action)
             [] action.type = "release" -> undoRelease(s1, action)
             [] action.type = "turn_add" -> undoTurnAdd(s1, action)
             [] action.type = "ss_add" -> undoSSAdd(s1, action)
             [] action.type = "ds_add" -> undoDSAdd(s1, action)
             [] action.type = "circle_zero" -> undoCircleZero(s1, action)
             [] action.type = "circle_ellipse" -> undoCircleEllipse(s1, action)
             [] action.type = "circle_zero_deg_angle" -> undoCircleZeroDegAngle(s1, action)
             [] action.type = "ball_add" -> undoBallAdd(s1, action)
             [] action.type = "delete" -> undoDelete(s1, action)
             [] OTHER -> [s1 EXCEPT !.ret = NullRet]

\* ------------------------------------------------------------ deleteAtFrame
deleteAtFrame_keepDS(s, frame) ==
  LET hasT0  == s.throwStart = frame
      hasRel == s.release = frame
      tIdx   == indexOf(s.turnBoundaries, frame)
      ssIdx  == indexOf(s.ssBoundaries, frame)
      bIdx   == findIndexFrame(s.ballMarkers, frame)
      deleted == [throwStart |-> IF hasT0 THEN s.throwStart ELSE Undefined,
                  release |-> IF hasRel THEN s.release ELSE Undefined,
                  turn |-> tIdx >= 0, ss |-> ssIdx >= 0, ds |-> FALSE,
                  ball |-> IF bIdx >= 0 THEN s.ballMarkers[bIdx + 1] ELSE UndefinedObj]
      any == hasT0 \/ hasRel \/ tIdx >= 0 \/ ssIdx >= 0 \/ bIdx >= 0
  IN  IF ~any THEN [s EXCEPT !.ret = NullRet]
      ELSE [s EXCEPT
              !.throwStart = IF hasT0 THEN Null ELSE @,
              !.release = IF hasRel THEN Null ELSE @,
              !.turnBoundaries = IF tIdx >= 0 THEN splice1(@, tIdx) ELSE @,
              !.ssBoundaries = IF ssIdx >= 0 THEN splice1(@, ssIdx) ELSE @,
              !.ballMarkers = IF bIdx >= 0 THEN splice1(@, bIdx) ELSE @,
              !.undoStack = Append(@, [type |-> "delete", frame |-> frame,
                                       tags |-> deleted]),
              !.dirty = TRUE,
              !.ret = "Deleted tags at frame " \o ToString(frame)]

\* deleteAtFrame(frame)
deleteAtFrame(s, frame) ==
  LET hasT0  == s.throwStart = frame
      hasRel == s.release = frame
      tIdx   == indexOf(s.turnBoundaries, frame)
      ssIdx  == indexOf(s.ssBoundaries, frame)
      dsIdx  == indexOf(s.dsBoundaries, frame)
      bIdx   == findIndexFrame(s.ballMarkers, frame)
      deleted == [throwStart |-> IF hasT0 THEN s.throwStart ELSE Undefined,
                  release |-> IF hasRel THEN s.release ELSE Undefined,
                  turn |-> tIdx >= 0, ss |-> ssIdx >= 0, ds |-> dsIdx >= 0,
                  ball |-> IF bIdx >= 0 THEN s.ballMarkers[bIdx + 1] ELSE UndefinedObj]
      any == hasT0 \/ hasRel \/ tIdx >= 0 \/ ssIdx >= 0 \/ dsIdx >= 0 \/ bIdx >= 0
  IN  IF ~any THEN [s EXCEPT !.ret = NullRet]
      ELSE [s EXCEPT
              !.throwStart = IF hasT0 THEN Null ELSE @,
              !.release = IF hasRel THEN Null ELSE @,
              !.turnBoundaries = IF tIdx >= 0 THEN splice1(@, tIdx) ELSE @,
              !.ssBoundaries = IF ssIdx >= 0 THEN splice1(@, ssIdx) ELSE @,
              !.dsBoundaries = IF dsIdx >= 0 THEN splice1(@, dsIdx) ELSE @,
              !.ballMarkers = IF bIdx >= 0 THEN splice1(@, bIdx) ELSE @,
              !.undoStack = Append(@, [type |-> "delete", frame |-> frame,
                                       tags |-> deleted]),
              !.dirty = TRUE,
              !.ret = "Deleted tags at frame " \o ToString(frame)]

\* ------------------------------------------------------------- save / load
\* JSON values of a stored document.  JSON.stringify followed by JSON.parse
\* maps a number to itself, null to null, an array to an array; a key the
\* document does not have reads as undefined.
JNull == [json |-> "null"]
JUndefined == [json |-> "undefined"]
JNum(n) == [json |-> "number", num |-> n]
JArr(a) == [json |-> "array", items |-> a]

\* a number-or-null binding as a JSON value, and back
toJ(n) == IF n = Null THEN JNull ELSE JNum(n)
fromJ(v) == IF v.json = "number" THEN v.num ELSE Null

\* data.key of a parsed document
get(data, key) == IF key \in DOMAIN data THEN data[key] ELSE JUndefined

\* JavaScript truthiness of a JSON value
truthy(v) == v.json = "array" \/ (v.json = "number" /\ v.num # 0)

\* 'throwsage_baseline_' + _basename
StorageKey(basename) == "throwsage_baseline_" \o basename

\* the payload object built by save(), as JSON.stringify writes it
payload(s) ==
  [throw_start |-> toJ(s.throwStart),
   release |-> toJ(s.release),
   turn_boundaries |-> JArr(s.turnBoundaries),
   ss_boundaries |-> JArr(s.ssBoundaries),
   ds_boundaries |-> JArr(s.dsBoundaries),
   ball_markers |-> JArr([i \in 1..Len(s.ballMarkers) |->
                       <<s.ballMarkers[i].frame, s.ballMarkers[i].x, s.ballMarkers[i].y>>]),
   circle_deg_zero |-> IF s.circleDegZero # NullObj
                         THEN JArr(<<s.circleDegZero.x, s.circleDegZero.y>>)
                         ELSE JNull,
   circle_ellipse |-> IF s.circleEllipse # NullObj
                        THEN JArr(<<s.circleEllipse.cx, s.circleEllipse.cy,
                                    s.circleEllipse.major, s.circleEllipse.minor,
                                    s.circleEllipse.rotation>>)
                        ELSE JNull,
   circle_zero_deg_angle |-> toJ(s.circleZeroDegAngle),
   video_basename |-> s._basename,
   total_frames |-> JNum(s._totalFrames)]

save_allowEqual(s, writeOk) ==
  IF s.throwStart = Null THEN [s EXCEPT !.ret = "error: Set T0 first"]
  ELSE IF s.release = Null THEN [s EXCEPT !.ret = "error: Set Release first"]
  ELSE IF s.release < s.throwStart
    THEN [s EXCEPT !.ret = "error: Release must be after T0"]
  ELSE IF writeOk
    THEN [s EXCEPT !.localStorage[StorageKey(s._basename)] = payload(s),
                   !.dirty = FALSE,
                   !.ret = "ok"]
  ELSE [s EXCEPT !.ret = "error: setItem failed"]

save_keepDirty(s, writeOk) ==
  IF s.throwStart = Null THEN [s EXCEPT !.ret = "error: Set T0 first"]
  ELSE IF s.release = Null THEN [s EXCEPT !.ret = "error: Set Release first"]
  ELSE IF s.release <= s.throwStart
    THEN [s EXCEPT !.ret = "error: Release must be after T0"]
  ELSE IF writeOk
    THEN [s EXCEPT !.localStorage[StorageKey(s._basename)] = payload(s),
                   !.ret = "ok"]
  ELSE [s EXCEPT !.ret = "error: setItem failed"]

save_noReleaseTest(s, writeOk) ==
  IF s.throwStart = Null THEN [s EXCEPT !.ret = "error: Set T0 first"]
  ELSE IF writeOk
    THEN [s EXCEPT !.localStorage[StorageKey(s._basename)] = payload(s),
                   !.dirty = FALSE,
                   !.ret = "ok"]
  ELSE [s EXCEPT !.ret = "error: setItem failed"]

\* save(); writeOk tells whether localStorage.setItem returns (TRUE) or throws
save(s, writeOk) ==
  IF s.throwStart = Null THEN [s EXCEPT !.ret = "error: Set T0 first"]
  ELSE IF s.release = Null THEN [s EXCEPT !.ret = "error: Set Release first"]
  ELSE IF s.release <= s.throwStart
    THEN [s EXCEPT !.ret = "error: Release must be after T0"]
  ELSE IF writeOk
    THEN [s EXCEPT !.localStorage[StorageKey(s._basename)] = payload(s),
                   !.dirty = FALSE,
                   !.ret = "ok"]
  ELSE [s EXCEPT !.ret = "error: setItem failed"]

\* the loop of load() over support_boundaries / support_states: the frames
\* whose state code is code
RECURSIVE supportFrames(_, _, _, _)
supportFrames(bounds, states, i, code) ==
  IF i > Len(bounds) THEN <<>>
  ELSE IF i <= Len(states) /\ states[i] = code
    THEN <<bounds[i]>> \o supportFrames(bounds, states, i + 1, code)
  ELSE supportFrames(bounds, states, i + 1, code)

rowsToMarkers_swapXY(rows) ==
  [i \in 1..Len(rows) |-> [frame |-> rows[i][1], x |-> rows[i][3], y |-> rows[i][2]]]

\* ball_markers.map(row => ({frame: row[0], x: row[1], y: row[2]}))
rowsToMarkers(rows) ==
  [i \in 1..Len(rows) |-> [frame |-> rows[i][1], x |-> rows[i][2], y |-> rows[i][3]]]

legacyTurns_keepT0(all, throwStart1) == all

\* turn_boundaries_all without T0: all.filter(f => f !== throwStart), or
\* all.slice(1) when throwStart is null
legacyTurns(all, throwStart1) ==
  IF throwStart1 # Null THEN filterNe(all, throwStart1)
  ELSE SubSeq(all, 2, Len(all))

\* load()
load(s) ==
  LET stored == s.localStorage[StorageKey(s._basename)]
  IN  IF stored = NullObj THEN [s EXCEPT !.ret = "false"]
      ELSE
        LET data == stored
            throwStart1 == IF get(data, "throw_start") # JUndefined
                             THEN fromJ(get(data, "throw_start")) ELSE s.throwStart
            release1 == IF get(data, "release") # JUndefined
                          THEN fromJ(get(data, "release")) ELSE s.release
            all == get(data, "turn_boundaries_all").items
            turn1 == IF truthy(get(data, "turn_boundaries"))
                       THEN get(data, "turn_boundaries").items
                     ELSE IF truthy(get(data, "turn_boundaries_all"))
                       THEN legacyTurns(all, throwStart1)
                     ELSE s.turnBoundaries
            ss1 == IF truthy(get(data, "ss_boundaries"))
                     THEN get(data, "ss_boundaries").items ELSE s.ssBoundaries
            ds1 == IF truthy(get(data, "ds_boundaries"))
                     THEN get(data, "ds_boundaries").items ELSE s.dsBoundaries
            combined == truthy(get(data, "support_boundaries"))
                          /\ truthy(get(data, "support_states"))
            sb == get(data, "support_boundaries").items
            st == get(data, "support_states").items
        IN [s EXCEPT
              !.throwStart = throwStart1,
              !.release = release1,
              !.turnBoundaries = turn1,
              !.ssBoundaries = IF combined THEN supportFrames(sb, st, 1, 1) ELSE ss1,
              !.dsBoundaries = IF combined THEN supportFrames(sb, st, 1, 2) ELSE ds1,
              !.ballMarkers =
                 IF truthy(get(data, "ball_markers"))
                      /\ Len(get(data, "ball_markers").items) > 0
                   THEN rowsToMarkers(get(data, "ball_markers").items)
                   ELSE @,
              !.circleDegZero =
                 IF truthy(get(data, "circle_deg_zero"))
                      /\ Len(get(data, "circle_deg_zero").items) = 2
                   THEN [x |-> get(data, "circle_deg_zero").items[1],
                         y |-> get(data, "circle_deg_zero").items[2]]
                   ELSE @,
              !.circleEllipse =
                 IF truthy(get(data, "circle_ellipse"))
                      /\ Len(get(data, "circle_ellipse").items) = 5
                   THEN LET e == get(data, "circle_ellipse").items
                        IN  [cx |-> e[1], cy |-> e[2], major |-> e[3],
                             minor |-> e[4], rotation |-> e[5]]
                   ELSE @,
              !.circleZeroDegAngle =
                 IF get(data, "circle_zero_deg_angle") # JUndefined
                      /\ get(data, "circle_zero_deg_angle") # JNull
                   THEN fromJ(get(data, "circle_zero_deg_angle"))
                   ELSE @,
              !.dirty = FALSE,
              !.ret = "true"]

\* ------------------------------------------------------------------ numbers
\* The float data of the viewer are modelled by small integers; NaN, the
\* two infinities and the undefined a read past the end of a typed array
\* gives are the values below, outside the range of the data.
NaN == 9999
Infinity == 999
NegInfinity == -999
UndefinedNumber == 9998

\* the global isNaN(v), which converts v to a number: undefined becomes NaN
isNaN(v) == v = NaN \/ v = UndefinedNumber
\* unary minus
neg(v) == IF isNaN(v) THEN NaN ELSE -v
\* a > b and a < b of JavaScript: false when an operand is NaN or undefined
gt(a, b) == ~isNaN(a) /\ ~isNaN(b) /\ a > b
lt(a, b) == ~isNaN(a) /\ ~isNaN(b) /\ a < b

Min(a, b) == IF a < b THEN a ELSE b
Max(a, b) == IF a > b THEN a ELSE b

\* Math.round of a number given as its double
MathRoundx2(x2) == (x2 + 1) \div 2

Abs(x) == IF x < 0 THEN -x ELSE x

RECURSIVE isPowerOfTwo(_)
isPowerOfTwo(n) == n = 1 \/ (n > 1 /\ n % 2 = 0 /\ isPowerOfTwo(n \div 2))

RECURSIVE GCD(_, _)
GCD(a, b) == IF b = 0 THEN a ELSE GCD(b, a % b)

\* the fraction num/den (den > 0) in lowest terms
Fraction(num, den) == <<num \div GCD(Abs(num), den), den \div GCD(Abs(num), den)>>

\* data[off] of a typed array; a read past the end gives undefined
elem(data, off) ==
  IF off + 1 \in 1..Len(data) THEN data[off + 1] ELSE UndefinedNumber

\* keypoints.bin holds 70 joints of 3 floats for every frame.  Its array is
\* modelled by the record [length, cycle]: the array of length floats whose
\* element at offset k is cycle[(k % Len(cycle)) + 1].
\* keypointsData[off]; a read past the end gives undefined
kpElem(data, off) ==
  IF off < data.length THEN data.cycle[(off % Len(data.cycle)) + 1]
  ELSE UndefinedNumber

\* new THREE.Vector3(x, y, z): an undefined argument takes the default 0
Vector3(x, y, z) ==
  <<IF x = UndefinedNumber THEN 0 ELSE x,
    IF y = UndefinedNumber THEN 0 ELSE y,
    IF z = UndefinedNumber THEN 0 ELSE z>>

\* position.set(x, y, z) of a THREE.Vector3 that holds old: an undefined z
\* leaves the z it has
Vector3Set(old, x, y, z) == <<x, y, IF z = UndefinedNumber THEN old[3] ELSE z>>

\* the value a range input holds after v is assigned to it
sanitize(v, min, max) == IF max < min THEN min ELSE Max(min, Min(v, max))

setScrubberValue(a, v) ==
  [a EXCEPT !.scrubber.value = sanitize(v, a.scrubber.min, a.scrubber.max)]

\* scrubber.min = min; scrubber.max = max: the range input sanitizes its
\* value after each of the two assignments
setScrubberRange(scrubber, min, max) ==
  LET value == sanitize(scrubber.value, min, scrubber.max)
  IN  [min |-> min, max |-> max, value |-> sanitize(value, min, max)]

\* ---------------------------------------------------------------- 3D viewer
\* The 3D viewer (viewer.js 1-2154).  Its state is the record viewer:
\*   metadata      metadata.json: [frame_count, coord_space] and, when the
\*                 file has them, turn_boundaries and throw_window
\*   isWorldSpace, hammerData, keypointsData, orbitExtremes, currentFrame,
\*   playing, timelineMin, timelineMax, activeRangePreset, lastHammerFrame
\*                 the bindings of that name
\*   hammerSphere  [position, visible]
\*   scrubber      the range input: [min, max, value]
\*   kp            the vector the last getKp call returned (<<>>: none yet)
\*   ready         main() has run
\*   verticesData, facesData, fillTypeData, circlePositionsData,
\*   supportStateData, legAlignmentData, pipelineSeparation, pipelineBackLean,
\*   vertexColorsData
\*                 the bindings of that name: null, or [data |-> the array]
\*   loading       the loading overlay: "shown", "hidden", or "error" when it
\*                 holds the message "Failed to load data"
\*   responses     what the server answered to the fetches of this page
\*   separationAngles, backTiltAngles
\*                 the bindings of that name: null, or [data |-> the array]
\*   orbitExtremesGroup
\*                 null, or [visible |-> b]; each entry of orbitExtremes has
\*                 from createOrbitExtremesSpheres() on a field sphere
\*                 [visible |-> b, opacity |-> a fraction <<num, den>>]
\*   maxminActive  the 'maxmin' toggle button has the class 'active'
\*   lastFrameTime the binding of that name, in ms, as the exact fraction
\*                 <<num, den>>
\*   playbackSpeedx2  twice playbackSpeed (0.5, 1 and 2 are 1, 2 and 4)
\*   now           performance.now() at the latest event of the page, in ms
\*   lastAdvance   the time of the latest tick that advanced currentFrame, or
\*                 of the latest click that started playback
camToThree_noFlip(v, x, y, z) == <<x, y, z>>

\* camToThree(x, y, z)
camToThree(v, x, y, z) ==
  IF v.isWorldSpace THEN <<x, y, z>> ELSE <<x, neg(y), neg(z)>>

\* getKp(frame, idx)
getKp(v, frame, idx) ==
  LET off == (frame * 70 + idx) * 3
      k == v.keypointsData
  IN  IF v.isWorldSpace
        THEN Vector3(kpElem(k, off), kpElem(k, off + 1), kpElem(k, off + 2))
        ELSE Vector3(kpElem(k, off), neg(kpElem(k, off + 1)), neg(kpElem(k, off + 2)))

\* isInvalid of updateHammerFrame and computeLastHammerFrame
isInvalid(v, f) ==
  LET off == f * 3
      h == v.hammerData
  IN  isNaN(elem(h, off)) \/ (elem(h, off) = 0 /\ elem(h, off + 1) = 0 /\ elem(h, off + 2) = 0)

\* createHammer(): the sphere is a new THREE.Mesh, at the origin and visible
createHammer(v) ==
  [v EXCEPT !.hammerSphere = [position |-> <<0, 0, 0>>, visible |-> TRUE]]

updateHammerFrame_alwaysVisible(v, frame) ==
  LET off == frame * 3
      h == v.hammerData
      p == camToThree(v, elem(h, off), elem(h, off + 1), elem(h, off + 2))
  IN  [v EXCEPT !.hammerSphere =
         [position |-> Vector3Set(v.hammerSphere.position, p[1], p[2], p[3]),
          visible |-> TRUE]]

\* updateHammerFrame(frame), without the colouring by fill type
updateHammerFrame(v, frame) ==
  LET off == frame * 3
      h == v.hammerData
      p == camToThree(v, elem(h, off), elem(h, off + 1), elem(h, off + 2))
  IN  [v EXCEPT !.hammerSphere =
         [position |-> Vector3Set(v.hammerSphere.position, p[1], p[2], p[3]),
          visible |-> ~isInvalid(v, frame)]]

\* hammerY(f) of precomputeOrbitExtremes: hammerYIsNull tells whether it
\* returns null, hammerY is the height it returns otherwise
hammerYIsNull(v, f) ==
  LET off == f * 3
      h == v.hammerData
  IN  isNaN(elem(h, off)) \/ (elem(h, off) = 0 /\ elem(h, off + 1) = 0 /\ elem(h, off + 2) = 0)

hammerY(v, f) ==
  LET off == f * 3
      h == v.hammerData
  IN  camToThree(v, elem(h, off), elem(h, off + 1), elem(h, off + 2))[2]

\* hammerPos(f)
hammerPos(v, f) ==
  LET off == f * 3
      h == v.hammerData
  IN  camToThree(v, elem(h, off), elem(h, off + 1), elem(h, off + 2))

\* the loop "for (f = segStart; f <= segEnd; f++)" that looks for the maximum
RECURSIVE scanHigh(_, _, _, _, _)
scanHigh(v, f, segEnd, maxY, maxFrame) ==
  IF f > segEnd THEN [y |-> maxY, frame |-> maxFrame]
  ELSE IF ~hammerYIsNull(v, f) /\ gt(hammerY(v, f), maxY)
    THEN scanHigh(v, f + 1, segEnd, hammerY(v, f), f)
  ELSE scanHigh(v, f + 1, segEnd, maxY, maxFrame)

\* the loop that looks for the minimum
RECURSIVE scanLow(_, _, _, _, _)
scanLow(v, f, segEnd, minY, minFrame) ==
  IF f > segEnd THEN [y |-> minY, frame |-> minFrame]
  ELSE IF ~hammerYIsNull(v, f) /\ lt(hammerY(v, f), minY)
    THEN scanLow(v, f + 1, segEnd, hammerY(v, f), f)
  ELSE scanLow(v, f + 1, segEnd, minY, minFrame)

highOfSegment_openEnd(v, segStart, segEnd) ==
  LET m == scanHigh(v, segStart, segEnd - 1, NegInfinity, segStart)
  IN  IF m.y > NegInfinity
        THEN <<[frame |-> m.frame, pos |-> hammerPos(v, m.frame),
                type |-> "high", turnFrameCount |-> segEnd - segStart]>>
        ELSE <<>>

\* the body of the loop of step 1: what segment [segStart, segEnd] adds to
\* orbitExtremes
highOfSegment(v, segStart, segEnd) ==
  LET m == scanHigh(v, segStart, segEnd, NegInfinity, segStart)
  IN  IF m.y > NegInfinity
        THEN <<[frame |-> m.frame, pos |-> hammerPos(v, m.frame),
                type |-> "high", turnFrameCount |-> segEnd - segStart]>>
        ELSE <<>>

\* step 1 of precomputeOrbitExtremes, from segment i (0-based) on: the highs
RECURSIVE highs(_, _)
highs(v, i) ==
  LET boundaries == v.metadata.turn_boundaries
  IN  IF i >= Len(boundaries) - 1 THEN <<>>
      ELSE highOfSegment(v, boundaries[i + 1], boundaries[i + 2])
           \o highs(v, i + 1)

\* the body of the loop of step 2: what the gap [segStart, segEnd] adds to
\* orbitExtremes
lowOfSegment(v, segStart, segEnd) ==
  LET m == scanLow(v, segStart, segEnd, Infinity, segStart)
  IN  IF m.y < Infinity
        THEN <<[frame |-> m.frame, pos |-> hammerPos(v, m.frame),
                type |-> "low", turnFrameCount |-> segEnd - segStart]>>
        ELSE <<>>

\* step 2: the lows of the segments segs[i..]
RECURSIVE lows(_, _, _)
lows(v, segs, i) ==
  IF i > Len(segs) THEN <<>>
  ELSE lowOfSegment(v, segs[i][1], segs[i][2]) \o lows(v, segs, i + 1)

\* precomputeOrbitExtremes()
precomputeOrbitExtremes(v) ==
  IF "turn_boundaries" \notin DOMAIN v.metadata
       \/ Len(v.metadata.turn_boundaries) < 2
    THEN [v EXCEPT !.orbitExtremes = <<>>]
  ELSE
    LET throwRelease ==
          IF "throw_window" \in DOMAIN v.metadata
               /\ v.metadata.throw_window.release # 0
            THEN v.metadata.throw_window.release
            ELSE v.metadata.frame_count - 1
        boundaries == v.metadata.turn_boundaries
        hs == highs(v, 0)
        highFrames == [k \in 1..Len(hs) |-> hs[k].frame]
        halfTurn == MathRoundx2(boundaries[2] - boundaries[1])
        lowSearchStart == Max(0, boundaries[1] - halfTurn)
        lowSegments ==
          IF Len(highFrames) > 0
            THEN <<<<lowSearchStart, highFrames[1]>>>>
                 \o [k \in 1..(Len(highFrames) - 1) |->
                       <<highFrames[k], highFrames[k + 1]>>]
                 \o <<<<highFrames[Len(highFrames)], throwRelease>>>>
            ELSE <<>>
    IN  [v EXCEPT !.orbitExtremes = hs \o lows(v, lowSegments, 1)]

\* createOrbitExtremesSpheres()
createOrbitExtremesSpheres(v) ==
  [v EXCEPT !.orbitExtremesGroup = [visible |-> FALSE],
            !.orbitExtremes =
               [k \in 1..Len(v.orbitExtremes) |->
                  v.orbitExtremes[k]
                    @@ [sphere |-> [visible |-> FALSE, opacity |-> <<0, 1>>]]]]

\* Math.round(0.75 * turnFrameCount)
fadeDurationOf(turnFrameCount) == (3 * turnFrameCount + 2) \div 4

sphereAt_fadeOverSpan(ext, frame) ==
  IF frame < ext.frame THEN [ext.sphere EXCEPT !.visible = FALSE]
  ELSE LET elapsed == frame - ext.frame
           fadeDuration == ext.turnFrameCount
       IN  IF fadeDuration <= 0 \/ elapsed > fadeDuration
             THEN [visible |-> TRUE, opacity |-> <<1, 2>>]
             ELSE [visible |-> TRUE,
                   opacity |-> Fraction(2 * fadeDuration - elapsed, 2 * fadeDuration)]

\* the body of the loop of updateOrbitExtremesFrame: the sphere of ext at frame
sphereAt(ext, frame) ==
  IF frame < ext.frame THEN [ext.sphere EXCEPT !.visible = FALSE]
  ELSE LET elapsed == frame - ext.frame
           fadeDuration == fadeDurationOf(ext.turnFrameCount)
       IN  IF fadeDuration <= 0 \/ elapsed > fadeDuration
             THEN [visible |-> TRUE, opacity |-> <<1, 2>>]
             ELSE [visible |-> TRUE,
                   opacity |-> Fraction(2 * fadeDuration - elapsed, 2 * fadeDuration)]

\* updateOrbitExtremesFrame(frame)
updateOrbitExtremesFrame(v, frame) ==
  IF v.orbitExtremesGroup = NullObj THEN v
  ELSE IF ~v.orbitExtremesGroup.visible THEN v
  ELSE [v EXCEPT !.orbitExtremes =
          [k \in 1..Len(v.orbitExtremes) |->
             IF "sphere" \notin DOMAIN v.orbitExtremes[k] THEN v.orbitExtremes[k]
             ELSE [v.orbitExtremes[k] EXCEPT !.sphere = sphereAt(v.orbitExtremes[k], frame)]]]

\* the click listener of the 'maxmin' toggle button
viewerToggleMaxmin(v) ==
  LET visible == ~v.maxminActive
      v1 == [v EXCEPT !.maxminActive = visible]
  IN  IF v.orbitExtremesGroup = NullObj THEN v1
      ELSE LET v2 == [v1 EXCEPT !.orbitExtremesGroup.visible = visible]
           IN  IF visible THEN updateOrbitExtremesFrame(v2, v2.currentFrame) ELSE v2

\* ------------------------------------------------- 3D viewer: derived metrics
KP_LEFT_SHOULDER == 5
KP_RIGHT_SHOULDER == 6
KP_LEFT_HIP == 9
KP_RIGHT_HIP == 10

\* A live angle is kept as the exact arguments of the function that gives it:
\* [atan2 |-> <<cross, dot>>] is atan2(cross, dot) in degrees, and
\* [sign |-> s, torso |-> d] is s times the angle between d and the vertical.
\* computeSeparationAngle(frame)
\* a product of two coordinate differences is the negative zero where one
\* factor is zero and the other negative; a difference of two coordinates is
\* never the negative zero
negZeroProduct(a, b) == (a = 0 /\ b < 0) \/ (b = 0 /\ a < 0)

\* Math.atan2(y, x) * (180 / Math.PI), negY and negX telling whether a zero
\* y or x is the negative zero: [degrees |-> d], or off the axes the angle
\* named, not computed
atan2Degrees(y, x, negY, negX) ==
  IF y = 0 THEN (IF x > 0 \/ (x = 0 /\ ~negX) THEN [degrees |-> 0]
                 ELSE (IF negY THEN [degrees |-> -180] ELSE [degrees |-> 180]))
  ELSE IF x = 0 THEN (IF y > 0 THEN [degrees |-> 90] ELSE [degrees |-> -90])
  ELSE [atan2 |-> <<y, x>>]

\* computeSeparationAngle(frame)
computeSeparationAngle(v, frame) ==
  LET lHip == getKp(v, frame, KP_LEFT_HIP)
      rHip == getKp(v, frame, KP_RIGHT_HIP)
      lShoulder == getKp(v, frame, KP_LEFT_SHOULDER)
      rShoulder == getKp(v, frame, KP_RIGHT_SHOULDER)
      hipVecX == rHip[1] - lHip[1]
      hipVecZ == rHip[3] - lHip[3]
      shoulderVecX == rShoulder[1] - lShoulder[1]
      shoulderVecZ == rShoulder[3] - lShoulder[3]
      dot == hipVecX * shoulderVecX + hipVecZ * shoulderVecZ
      cross == hipVecX * shoulderVecZ - hipVecZ * shoulderVecX
      \* (-0) + (-0) is -0; of the differences of zeros only (-0) - (+0) is -0
      negDot == negZeroProduct(hipVecX, shoulderVecX)
                  /\ negZeroProduct(hipVecZ, shoulderVecZ)
      negCross == negZeroProduct(hipVecX, shoulderVecZ)
                    /\ hipVecZ * shoulderVecX = 0
                    /\ ~negZeroProduct(hipVecZ, shoulderVecX)
  IN  IF \E k \in {lHip, rHip, lShoulder, rShoulder} : isNaN(k[1]) \/ isNaN(k[3])
        THEN [degrees |-> NaN]
        ELSE atan2Degrees(cross, dot, negCross, negDot)

\* sign * Math.acos(dot) * (180 / Math.PI) of computeBackTiltAngle, dot the y
\* of the normalized torso vector; Vector3.normalize() leaves the zero vector
\* as it is.  [degrees |-> d], or off the axes the angle named, not computed
tiltDegrees(sign, torso) ==
  IF torso[2] = 0 THEN [degrees |-> sign * 90]
  ELSE IF torso[1] = 0 /\ torso[3] = 0
    THEN [degrees |-> IF torso[2] > 0 THEN 0 ELSE sign * 180]
  ELSE [sign |-> sign, torso |-> torso]

\* computeBackTiltAngle(frame); the vectors are kept doubled, which leaves
\* their directions as they are.  shoulderDisp.dot(hammerDir) is taken after
\* hammerDir.normalize(), in doubles.  Where the two vectors stand at a right
\* angle with neither product zero, the exact sum of the products is 0 and
\* the sum of the doubles is what the rounding of the two products leaves:
\* zero, above it or below it; below tells whether it is below.  The
\* products are exact opposites, and their sum is 0, when one component of
\* hammerDir is the other times a power of two, because normalize() scales
\* both by the same factor.
computeBackTiltAngle(v, frame, below) ==
  LET lShoulder == getKp(v, frame, KP_LEFT_SHOULDER)
      rShoulder == getKp(v, frame, KP_RIGHT_SHOULDER)
      lHip == getKp(v, frame, KP_LEFT_HIP)
      rHip == getKp(v, frame, KP_RIGHT_HIP)
      hipMid == [c \in 1..3 |-> lHip[c] + rHip[c]]
      shoulderMid == [c \in 1..3 |-> lShoulder[c] + rShoulder[c]]
      torsoDir == [c \in 1..3 |-> shoulderMid[c] - hipMid[c]]
      h == camToThree(v, elem(v.hammerData, frame * 3),
                      elem(v.hammerData, frame * 3 + 1),
                      elem(v.hammerData, frame * 3 + 2))
      hammerDir == <<2 * h[1] - hipMid[1], 2 * h[3] - hipMid[3]>>
      dot == torsoDir[1] * hammerDir[1] + torsoDir[3] * hammerDir[2]
      rounds == /\ dot = 0
                /\ torsoDir[1] * hammerDir[1] # 0
                /\ LET a == Abs(hammerDir[1])
                       b == Abs(hammerDir[2])
                   IN  ~(\/ a % b = 0 /\ isPowerOfTwo(a \div b)
                         \/ b % a = 0 /\ isPowerOfTwo(b \div a))
      sign == IF ~isInvalid(v, frame) /\ ~isNaN(h[1]) /\ ~isNaN(h[3])
                 /\ hammerDir[1] * hammerDir[1] + hammerDir[2] * hammerDir[2] > 0
                THEN (IF dot < 0 \/ (rounds /\ below) THEN 1 ELSE -1)
                ELSE 1
  IN  IF \E k \in {lHip, rHip, lShoulder, rShoulder}, c \in 1..3 : isNaN(k[c])
        THEN [degrees |-> NaN]
        ELSE tiltDegrees(sign, torsoDir)

\* precomputeBackTilt() that takes a pipeline array of any length
precomputeBackTilt_anyLength(v, below) ==
  LET T == v.metadata.frame_count
  IN  IF v.pipelineBackLean # NullObj
        THEN [v EXCEPT !.backTiltAngles = v.pipelineBackLean]
        ELSE [v EXCEPT !.backTiltAngles =
                [data |-> [i \in 1..T |-> computeBackTiltAngle(v, i - 1, (i - 1) \in below)]]]

\* precomputeBackTilt(); below holds the frames whose
\* shoulderDisp.dot(hammerDir) the doubles leave below 0 where the rounding
\* decides it
precomputeBackTilt(v, below) ==
  LET T == v.metadata.frame_count
  IN  IF v.pipelineBackLean # NullObj /\ Len(v.pipelineBackLean.data) = T
        THEN [v EXCEPT !.backTiltAngles = v.pipelineBackLean]
        ELSE [v EXCEPT !.backTiltAngles =
                [data |-> [i \in 1..T |-> computeBackTiltAngle(v, i - 1, (i - 1) \in below)]]]

\* precomputeSeparation()
precomputeSeparation(v) ==
  LET T == v.metadata.frame_count
  IN  IF v.pipelineSeparation # NullObj /\ Len(v.pipelineSeparation.data) = T
        THEN [v EXCEPT !.separationAngles = v.pipelineSeparation]
        ELSE [v EXCEPT !.separationAngles =
                [data |-> [i \in 1..T |-> computeSeparationAngle(v, i - 1)]]]

\* ------------------------------------------------- 3D viewer: timeline

\* the loop of computeLastHammerFrame, from frame f down
RECURSIVE lastValidFrame(_, _, _)
lastValidFrame(v, f, default) ==
  IF f < 0 THEN default
  ELSE IF ~isInvalid(v, f) THEN f
  ELSE lastValidFrame(v, f - 1, default)

\* computeLastHammerFrame()
computeLastHammerFrame(v) ==
  LET T == v.metadata.frame_count
  IN  [v EXCEPT !.lastHammerFrame = lastValidFrame(v, T - 1, T - 1)]

\* updateFrame(frame): of the objects it updates, the hammer sphere
updateFrame(v, frame) == updateOrbitExtremesFrame(updateHammerFrame(v, frame), frame)

\* setFrame(f)
setFrame(v, f) == updateFrame(setScrubberValue([v EXCEPT !.currentFrame = f], f), f)

\* getTimelineRange() of the 3D viewer
viewerGetTimelineRange(v) ==
  LET t0 == IF "throw_window" \in DOMAIN v.metadata
              THEN v.metadata.throw_window.start ELSE 0
  IN  IF v.activeRangePreset = "wind" THEN [min |-> 0, max |-> Max(t0, 0)]
      ELSE IF v.activeRangePreset = "throw" THEN [min |-> t0, max |-> v.lastHammerFrame]
      ELSE [min |-> 0, max |-> v.lastHammerFrame]

\* applyTimelineRange() without the two clamping statements
viewerApplyTimelineRange_noClamp(v) ==
  LET range == viewerGetTimelineRange(v)
  IN  [v EXCEPT !.timelineMin = range.min, !.timelineMax = range.max,
                !.scrubber = setScrubberRange(v.scrubber, range.min, range.max)]

\* applyTimelineRange() of the 3D viewer
viewerApplyTimelineRange(v) ==
  LET range == viewerGetTimelineRange(v)
      v1 == [v EXCEPT !.timelineMin = range.min, !.timelineMax = range.max,
                      !.scrubber = setScrubberRange(v.scrubber, range.min, range.max)]
      v2 == IF v1.currentFrame < v1.timelineMin
              THEN setFrame(v1, v1.timelineMin)
              ELSE v1
      v3 == IF v2.currentFrame > v2.timelineMax
              THEN setFrame(v2, v2.timelineMax)
              ELSE v2
  IN  v3

\* the 'input' listener of the 3D viewer's scrubber
viewerScrubberInput(v, value) ==
  updateFrame([v EXCEPT !.currentFrame = value, !.scrubber.value = value], value)

\* frameDuration of animate(), 1000 / (metadata.fps * playbackSpeed) ms, as
\* the exact fraction <<num, den>>
frameDuration(v) == Fraction(2000, v.metadata.fps * v.playbackSpeedx2)

\* A double holds a fraction of these sizes exactly when its denominator is a
\* power of two.  Where frameDuration is one, every time of animate() is a
\* multiple of a binary fraction and the arithmetic of animate() is exact.
isExactDouble(q) == isPowerOfTwo(q[2])

\* elapsed / frameDuration of animate() as the pair [num, den] of its exact
\* value, elapsed being now - lastFrameTime
elapsedFrames(v, now) ==
  LET lft == v.lastFrameTime
      fd == frameDuration(v)
  IN  [num |-> (now * lft[2] - lft[1]) * fd[2], den |-> fd[1] * lft[2]]

\* The number of whole frame durations animate() finds in elapsed: the k with
\* elapsed >= frameDuration iff k >= 1 and elapsed % frameDuration equal to
\* elapsed - k * frameDuration.  Where elapsed is a whole multiple of a frame
\* duration that no double holds, the rounding of lastFrameTime and of
\* frameDuration decides whether the doubles reach the multiple; short tells
\* that they fall short of it.
wholeFrames(v, now, short) ==
  LET e == elapsedFrames(v, now)
      k == e.num \div e.den
  IN  IF e.num < e.den THEN 0
      ELSE IF e.num % e.den = 0 /\ ~isExactDouble(frameDuration(v)) /\ short
        THEN k - 1
      ELSE k

\* the click listener of the 3D viewer's play button, when performance.now()
\* is now
viewerPlayButton(v, now) ==
  LET t == [v EXCEPT !.playing = ~v.playing]
  IN  IF t.playing THEN [t EXCEPT !.lastFrameTime = <<now, 1>>] ELSE t

\* the advance of animate(): currentFrame++, wrapping to timelineMin
advanceFrame(v) ==
  LET next == IF v.currentFrame + 1 > v.timelineMax THEN v.timelineMin
              ELSE v.currentFrame + 1
  IN  updateFrame(setScrubberValue([v EXCEPT !.currentFrame = next], next), next)

\* animate() that advances at every tick while the viewer plays
animate_everyTick(v, now, short) == IF v.playing THEN advanceFrame(v) ELSE v

\* animate() at a tick where performance.now() is now; the new lastFrameTime,
\* now - (elapsed % frameDuration), is the old one and the whole frame
\* durations found in elapsed
animate(v, now, short) ==
  IF ~v.playing THEN v
  ELSE LET k == wholeFrames(v, now, short)
           lft == v.lastFrameTime
           fd == frameDuration(v)
       IN  IF k >= 1
             THEN [advanceFrame(v) EXCEPT
                     !.lastFrameTime =
                        Fraction(lft[1] * fd[2] + k * fd[1] * lft[2], lft[2] * fd[2])]
             ELSE v

\* the click listener of a speed button
viewerSpeedButton(v, speedx2) == [v EXCEPT !.playbackSpeedx2 = speedx2]

\* the viewer right after its module is evaluated
ViewerModuleInit ==
  [metadata |-> NullObj, isWorldSpace |-> FALSE, hammerData |-> <<>>,
   keypointsData |-> NullObj, orbitExtremes |-> <<>>,
   hammerSphere |-> NullObj, kp |-> <<>>,
   currentFrame |-> 0, playing |-> FALSE, timelineMin |-> 0, timelineMax |-> 0,
   activeRangePreset |-> "all", lastHammerFrame |-> 0,
   scrubber |-> [min |-> 0, max |-> 100, value |-> 50], ready |-> FALSE,
   verticesData |-> NullObj, facesData |-> NullObj, fillTypeData |-> NullObj,
   circlePositionsData |-> NullObj, supportStateData |-> NullObj,
   legAlignmentData |-> NullObj, pipelineSeparation |-> NullObj,
   pipelineBackLean |-> NullObj, vertexColorsData |-> NullObj,
   loading |-> "shown", responses |-> NullObj,
   separationAngles |-> NullObj, backTiltAngles |-> NullObj,
   orbitExtremesGroup |-> NullObj, maxminActive |-> FALSE,
   lastFrameTime |-> <<0, 1>>, playbackSpeedx2 |-> 2, now |-> 0, lastAdvance |-> 0]

\* ----------------------------------------------------- 3D viewer: start-up
\* The answer of the server to a fetch is one of
\*   [status |-> "ok", data |-> the array]
\*   [status |-> "networkError"]          fetch() rejects
\*   [status |-> "errorPage", aligned |-> b, data |-> the body]
\*       an HTTP error answered with a page; fetch() resolves and the body is
\*       read like a data file; aligned tells whether its length is a
\*       multiple of 4
\* The bytes of an error page, read as numbers
ErrorPageData == <<60, 33>>

\* loadBinary(url, dtype) on the answer resp: it throws, or returns the array
loadBinary(resp, dtype) ==
  IF resp.status = "networkError" THEN [threw |-> TRUE]
  ELSE IF resp.status = "ok" THEN [threw |-> FALSE, value |-> [data |-> resp.data]]
  ELSE IF dtype = "int8" \/ resp.aligned
    THEN [threw |-> FALSE, value |-> [data |-> resp.data]]
  ELSE [threw |-> TRUE]

\* the optional files of metadata.files in the order loadData() reads them,
\* with the binding each is assigned to and its element type
OptionalFiles ==
  <<[file |-> "fill_type", binding |-> "fillTypeData", dtype |-> "int8"],
    [file |-> "circle_positions", binding |-> "circlePositionsData", dtype |-> "float32"],
    [file |-> "support_state", binding |-> "supportStateData", dtype |-> "int8"],
    [file |-> "leg_alignment", binding |-> "legAlignmentData", dtype |-> "float32"],
    [file |-> "separation", binding |-> "pipelineSeparation", dtype |-> "float32"],
    [file |-> "back_lean", binding |-> "pipelineBackLean", dtype |-> "float32"],
    [file |-> "vertex_colors", binding |-> "vertexColorsData", dtype |-> "float32"]>>

\* the part of loadData() that reads the optional files, from the i-th on:
\* the viewer it leaves and whether it threw
RECURSIVE loadOptional(_, _, _)
loadOptional(v, server, i) ==
  IF i > Len(OptionalFiles) THEN [v |-> v, threw |-> FALSE]
  ELSE LET o == OptionalFiles[i]
       IN  IF o.file \notin v.metadata.files THEN loadOptional(v, server, i + 1)
           ELSE LET r == loadBinary(server[o.file], o.dtype)
                IN  IF r.threw THEN [v |-> v, threw |-> TRUE]
                    ELSE loadOptional([v EXCEPT ![o.binding] = r.value],
                                      server, i + 1)

\* loadData() against a server: the viewer it leaves and whether it threw
loadData(v, server) ==
  IF server.metadata.status # "ok" THEN [v |-> v, threw |-> TRUE]
  ELSE
    LET metadata == server.metadata.data
        v1 == [v EXCEPT !.metadata = metadata,
                        !.isWorldSpace = (metadata.coord_space = "world")]
        verts == loadBinary(server.vertices, "float32")
        faces == loadBinary(server.faces, "int32")
        kps == loadBinary(server.keypoints, "float32")
        hammer == loadBinary(server.hammer, "float32")
    IN  IF verts.threw \/ faces.threw \/ kps.threw \/ hammer.threw
          THEN [v |-> v1, threw |-> TRUE]
          ELSE loadOptional([v1 EXCEPT !.verticesData = verts.value,
                                       !.facesData = faces.value,
                                       !.keypointsData = kps.value.data,
                                       !.hammerData = hammer.value.data],
                            server, 1)

\* main() after loadData() has returned: the extremes are computed, frame 0
\* is shown, initUI() sets the scrubber up and applies the timeline range,
\* and the loading overlay is hidden
mainAfterLoad(v, below) ==
  LET v1 == createOrbitExtremesSpheres(precomputeOrbitExtremes(
              precomputeSeparation(precomputeBackTilt(
                createHammer(computeLastHammerFrame(v)), below))))
      v2 == updateFrame(v1, 0)
      v3 == [v2 EXCEPT !.scrubber = [min |-> 0, max |-> v.metadata.frame_count - 1,
                                     value |-> 0]]
  IN  [viewerApplyTimelineRange(v3) EXCEPT !.ready = TRUE, !.loading = "hidden"]

\* main() against a server
viewerMain(v, server, below) ==
  LET r == loadData([v EXCEPT !.responses = server], server)
  IN  IF r.threw THEN [r.v EXCEPT !.loading = "error"]
      ELSE mainAfterLoad(r.v, below)

\* the frames of the loaded recording at which the rounding decides the sign
\* of the back tilt, and the outcomes the rounding can have: the frames
\* where the doubles' dot product is below 0
RoundedFrames(v) ==
  {f \in 0..(v.metadata.frame_count - 1) :
     computeBackTiltAngle(v, f, TRUE) # computeBackTiltAngle(v, f, FALSE)}
Roundings(v) == SUBSET RoundedFrames(v)

RoundingsAt(server) ==
  LET r == loadData([ViewerModuleInit EXCEPT !.responses = server], server)
  IN  IF r.threw THEN {{}} ELSE Roundings(r.v)

\* the states main() can leave against a server
Opened(server) ==
  {viewerMain(ViewerModuleInit, server, below) : below \in RoundingsAt(server)}

\* a server that serves metadata.json with no optional file declared, an
\* empty mesh, and the keypoints and hammer arrays given
RecordingServer(metadata, keypoints, hammer) ==
  [metadata |-> [status |-> "ok", data |-> metadata @@ [files |-> {}]],
   vertices |-> [status |-> "ok", data |-> <<>>],
   faces |-> [status |-> "ok", data |-> <<>>],
   keypoints |-> [status |-> "ok", data |-> keypoints],
   hammer |-> [status |-> "ok", data |-> hammer]]

\* ---------------------------------------------------------- annotation tool
\* The annotation tool (viewer.js 2160-3466) drives the tag store.  Its state
\* is the record annot:
\*   currentFrame, totalFrames, playing, activeRange   the bindings of that name
\*   fpsx2        twice the frame rate fps (fps is a multiple of 0.5 here)
\*   metadata     NullObj while metadata.json was not served, else the record
\*                of its fields: hammer_highpoint_frame (n or Undefined) and,
\*                where the file has them, turn_boundaries and throw_window
\*   scrubber     the range input: [min, max, value]
\*   videoFrame   Math.round(video.currentTime * fps); the video has ended
\*                when it is totalFrames
\*   videoPaused  video.paused
\*   markers      the frames of the manual markers on the timeline, the
\*                children of #manual-markers
\*   autoMarkers  the frames of the auto markers, the children of
\*                #auto-markers
\*   showAutoMarkers, autoDisplay, autoButtonDisplay
\*                the binding of that name, autoMarkersEl.style.display and
\*                the style.display of #btn-show-auto
FpsSet == {2, 3}


videoEnded(a) == a.videoFrame >= a.totalFrames

getVideoEndFrame_noClamp(a, s) ==
  IF a.metadata # NullObj
       /\ a.metadata.hammer_highpoint_frame # Undefined
       /\ a.metadata.hammer_highpoint_frame # 0
    THEN a.metadata.hammer_highpoint_frame
  ELSE IF s.release # Null
    THEN s.release + MathRoundx2(a.fpsx2)
  ELSE a.totalFrames - 1

\* getVideoEndFrame()
getVideoEndFrame(a, s) ==
  IF a.metadata # NullObj
       /\ a.metadata.hammer_highpoint_frame # Undefined
       /\ a.metadata.hammer_highpoint_frame # 0
    THEN a.metadata.hammer_highpoint_frame
  ELSE IF s.release # Null
    THEN Min(s.release + MathRoundx2(a.fpsx2), a.totalFrames - 1)
  ELSE a.totalFrames - 1

\* getTimelineRange()
getTimelineRange(a, s) ==
  LET t0 == s.throwStart
      endFrame == getVideoEndFrame(a, s)
  IN  IF a.activeRange = "wind" /\ t0 # Null THEN [min |-> 0, max |-> t0]
      ELSE IF a.activeRange = "throw" /\ t0 # Null THEN [min |-> t0, max |-> endFrame]
      ELSE [min |-> 0, max |-> endFrame]

\* seekToFrame(f)
seekToFrame(a, f) ==
  LET f1 == IF f < 0 THEN 0 ELSE f
      f2 == IF f1 >= a.totalFrames THEN a.totalFrames - 1 ELSE f1
  IN  setScrubberValue([a EXCEPT !.currentFrame = f2, !.videoFrame = f2], f2)

\* the markers renderManualMarkers draws: the tagged frames within the range
manualMarkers(s, rMin, rMax) ==
  IF rMax - rMin <= 0 THEN {}
  ELSE {f \in ({s.throwStart, s.release} \ {Null})
                \cup {s.turnBoundaries[i] : i \in 1..Len(s.turnBoundaries)}
                \cup {s.ssBoundaries[i] : i \in 1..Len(s.ssBoundaries)}
                \cup {s.dsBoundaries[i] : i \in 1..Len(s.dsBoundaries)} :
          f >= rMin /\ f <= rMax}

\* renderAutoMarkers(): the markers of throw_window.start, of the turn
\* boundaries and of throw_window.release that lie within the range
renderAutoMarkers(a, s) ==
  IF a.metadata = NullObj THEN a
  ELSE LET range == getTimelineRange(a, s)
           m == a.metadata
           window == IF "throw_window" \in DOMAIN m THEN m.throw_window ELSE NullObj
           t0 == IF window # NullObj /\ window.start > 0 THEN {window.start} ELSE {}
           turns == IF "turn_boundaries" \in DOMAIN m
                      THEN {m.turn_boundaries[i] : i \in 1..Len(m.turn_boundaries)}
                      ELSE {}
           rel == IF window # NullObj /\ window.release > 0 THEN {window.release} ELSE {}
       IN  IF range.max - range.min <= 0 THEN [a EXCEPT !.autoMarkers = {}]
           ELSE [a EXCEPT !.autoMarkers =
                   {f \in t0 \cup turns \cup rel : f >= range.min /\ f <= range.max}]

\* applyTimelineRange()
applyTimelineRange(a, s) ==
  LET range == getTimelineRange(a, s)
      a1 == [a EXCEPT !.scrubber = setScrubberRange(a.scrubber, range.min, range.max)]
      a2 == IF a1.currentFrame < range.min THEN seekToFrame(a1, range.min) ELSE a1
      a3 == IF a2.currentFrame > range.max THEN seekToFrame(a2, range.max) ELSE a2
  IN  renderAutoMarkers([a3 EXCEPT !.markers = manualMarkers(s, range.min, range.max)], s)

\* the click listener of #btn-show-auto
showAutoButton(a) ==
  [a EXCEPT !.showAutoMarkers = ~a.showAutoMarkers,
            !.autoDisplay = IF ~a.showAutoMarkers THEN "" ELSE "none"]

\* the markers a click can reach: the manual ones and, while their container
\* is displayed, the auto ones
clickableMarkers(a) ==
  a.markers \cup (IF a.autoDisplay = "none" THEN {} ELSE a.autoMarkers)

\* refreshTagUI()
refreshTagUI(a, s) == applyTimelineRange(a, s)

\* togglePlay(); video.play() on an ended video starts again from the start
togglePlay(a) ==
  IF ~a.playing
    THEN [a EXCEPT !.playing = TRUE, !.videoPaused = FALSE,
                   !.videoFrame = IF videoEnded(a) THEN 0 ELSE @]
    ELSE setScrubberValue([a EXCEPT !.playing = FALSE, !.videoPaused = TRUE,
                                    !.currentFrame = a.videoFrame],
                          a.videoFrame)

\* the 'input' listener of the scrubber
scrubberInput(a, v) ==
  seekToFrame([a EXCEPT !.playing = FALSE,
                        !.videoPaused = IF a.playing THEN TRUE ELSE @,
                        !.scrubber.value = v], v)

\* renderLoop(), for a video that is ready
renderLoop(a, s) ==
  IF ~a.playing THEN a
  ELSE LET range == getTimelineRange(a, s)
           f == a.videoFrame
           a1 == IF f # a.currentFrame /\ f >= range.min /\ f <= range.max
                   THEN setScrubberValue([a EXCEPT !.currentFrame = f], f)
                   ELSE a
       IN  IF videoEnded(a1) \/ a1.currentFrame >= range.max
             THEN [seekToFrame(a1, range.min) EXCEPT !.playing = FALSE,
                                                     !.videoPaused = TRUE]
             ELSE a1

\* the controller right after its module is evaluated; namespaceWritable
\* tells whether the build lets an assignment to a binding of the imported
\* tagger namespace through
AnnotModuleInit ==
  [currentFrame |-> 0, totalFrames |-> 0, playing |-> FALSE, activeRange |-> "all",
   fpsx2 |-> 60, metadata |-> NullObj,
   scrubber |-> [min |-> 0, max |-> 100, value |-> 50],
   videoFrame |-> 0, videoPaused |-> TRUE, markers |-> {},
   autoMarkers |-> {}, showAutoMarkers |-> TRUE, autoDisplay |-> "",
   autoButtonDisplay |-> "",
   placingCircle |-> FALSE, definingCircle |-> FALSE, definePoints |-> <<>>,
   circleAccepted |-> FALSE, dragging |-> NullObj, handleIndex |-> -1,
   acceptDisabled |-> FALSE, namespaceWritable |-> TRUE,
   activeMode |-> "circle", markingBall |-> FALSE]

\* updateCircleButtons(), of which the model keeps the Accept button's
\* disabled property
updateCircleButtons(a, s) ==
  LET hasEllipse == s.circleEllipse # NullObj
      defineReady == Len(a.definePoints) >= 3
  IN  [a EXCEPT !.acceptDisabled =
         ~(hasEllipse /\ (~a.circleAccepted \/ s.dirty)) /\ ~defineReady]

\* main(): video info and metadata are read, the scrubber is set up, the
\* stored baseline is loaded (store s), the timeline range applied and the
\* auto markers shown or hidden; postPipeline is true when metadata.json was
\* served
annotMain(s, fpsx2, totalFrames, metadata) ==
  LET a0 == [AnnotModuleInit EXCEPT !.fpsx2 = fpsx2, !.totalFrames = totalFrames,
                                    !.metadata = metadata]
      a1 == [a0 EXCEPT !.scrubber = [min |-> 0, max |-> totalFrames - 1, value |-> 0]]
      a2 == IF s.ret = "true" /\ s.circleEllipse # NullObj
              THEN updateCircleButtons([a1 EXCEPT !.circleAccepted = TRUE], s)
              ELSE a1
      a3 == refreshTagUI(applyTimelineRange(a2, s), s)
      postPipeline == metadata # NullObj
      hasBaselineTags == s.throwStart # Null \/ Len(s.turnBoundaries) > 0
  IN  IF hasBaselineTags \/ ~postPipeline
        THEN [a3 EXCEPT !.autoButtonDisplay = "none", !.autoDisplay = "none"]
        ELSE [a3 EXCEPT !.autoDisplay = IF a3.showAutoMarkers THEN "" ELSE "none"]

\* ---------------------------------------------------------------- tagger app
\* The tagger app (tagger-app.js).  Its state is the record app:
\*   currentFrame, totalFrames, playing, videoReady   the bindings of that name
\*   scrubber     the range input: [min, max, value]
\*   videoFrame   Math.round(video.currentTime * fps); the video has ended
\*                when it is totalFrames
\*   videoPaused  the video element is paused

\* seekToFrame(f) of the tagger app
appSeekToFrame(a, f) ==
  LET g == IF f < 0 THEN 0 ELSE f
      h == IF g >= a.totalFrames THEN a.totalFrames - 1 ELSE g
  IN  setScrubberValue([a EXCEPT !.currentFrame = h, !.videoFrame = h], h)

\* togglePlay() of the tagger app
appTogglePlay(a) ==
  IF ~a.playing
    THEN [a EXCEPT !.playing = TRUE, !.videoPaused = FALSE,
                   !.videoFrame = IF videoEnded(a) THEN 0 ELSE @]
    ELSE setScrubberValue([a EXCEPT !.playing = FALSE, !.videoPaused = TRUE,
                                    !.currentFrame = a.videoFrame],
                          a.videoFrame)

\* the 'input' listener of the tagger app's scrubber
appScrubberInput(a, v) ==
  appSeekToFrame([a EXCEPT !.playing = FALSE,
                           !.videoPaused = IF a.playing THEN TRUE ELSE @,
                           !.scrubber.value = v], v)

\* renderLoop() of the tagger app
appRenderLoop(a) ==
  IF ~a.videoReady \/ ~a.playing THEN a
  ELSE LET f == a.videoFrame
           a1 == IF f # a.currentFrame /\ f >= 0 /\ f < a.totalFrames
                   THEN setScrubberValue([a EXCEPT !.currentFrame = f], f)
                   ELSE a
       IN  IF videoEnded(a1) \/ a1.currentFrame >= a1.totalFrames - 1
             THEN [a1 EXCEPT !.videoFrame = 0, !.currentFrame = 0]
             ELSE a1

\* the tagger app right after its module is evaluated
AppModuleInit ==
  [currentFrame |-> 0, totalFrames |-> 0, playing |-> FALSE, videoReady |-> FALSE,
   scrubber |-> [min |-> 0, max |-> 100, value |-> 50],
   videoFrame |-> 0, videoPaused |-> TRUE, autoMarkers |-> {}]

\* renderAutoMarkers() of the tagger app: the frames that get a marker.
\* Without metadata it returns before it clears the markers.
appRenderAutoMarkers(a, metadata) ==
  IF metadata = NullObj THEN a
  ELSE IF a.totalFrames <= 1 THEN [a EXCEPT !.autoMarkers = {}]
  ELSE LET turns == IF "turn_boundaries" \in DOMAIN metadata
                      THEN {metadata.turn_boundaries[i] :
                              i \in 1..Len(metadata.turn_boundaries)}
                      ELSE {}
           rel == IF "throw_window" \in DOMAIN metadata
                    THEN (IF metadata.throw_window.release > 0
                            THEN {metadata.throw_window.release} ELSE {})
                    ELSE {}
       IN  [a EXCEPT !.autoMarkers = turns \cup rel]

\* main() of the tagger app: the video is loaded, paused and set to time 0,
\* initScrubber() runs and the auto markers of metadata.json are rendered
appMain(totalFrames, metadata) ==
  LET a0 == [AppModuleInit EXCEPT !.totalFrames = totalFrames, !.videoReady = TRUE,
                                  !.videoPaused = TRUE, !.videoFrame = 0]
      a1 == [a0 EXCEPT !.scrubber = [min |-> 0, max |-> totalFrames - 1, value |-> 0]]
  IN  appRenderAutoMarkers(a1, metadata)

\* ------------------------------------------------------------- circle fit
\* fitEllipse and fitCircleAsEllipse (viewer.js 2405-2450).  A fitted circle is
\* the record
\*   [cxNum, cyNum, den, r2Num, r2Den, rotation]
\* with centre (cxNum/den, cyNum/den) and major = minor = sqrt(r2Num/r2Den).
\* On points with whole coordinates up to the canvas width every sum of the
\* circle fit is a whole number below 2^53, the doubles hold them exactly, and
\* the model computes them.  canvasCoords scales the client coordinates of a
\* click, so the points may hold fractions of a pixel; their sums are rounded,
\* and of the computations on them the model keeps what the code decides on
\* and returns, given as rounded:
\*   negligible  Math.abs(det) < 1e-10
\*   cx, cy, r   the centre and the radius, to the whole pixel
\* rounded is null where the doubles are exact.

\* the sum of a list of numbers
RECURSIVE Sum(_)
Sum(a) == IF a = <<>> THEN 0 ELSE Head(a) + Sum(Tail(a))

\* canvas.width: the width of the video
CanvasWidth == 640

\* the sums and coefficients of fitCircleAsEllipse; D2 and E2 are 2*D and 2*E
circleCoefficients(points) ==
  LET n == Len(points)
      Sx == Sum([i \in 1..n |-> points[i].x])
      Sy == Sum([i \in 1..n |-> points[i].y])
      Sxx == Sum([i \in 1..n |-> points[i].x * points[i].x])
      Syy == Sum([i \in 1..n |-> points[i].y * points[i].y])
      Sxy == Sum([i \in 1..n |-> points[i].x * points[i].y])
      Sxxx == Sum([i \in 1..n |-> points[i].x * points[i].x * points[i].x])
      Syyy == Sum([i \in 1..n |-> points[i].y * points[i].y * points[i].y])
      Sxxy == Sum([i \in 1..n |-> points[i].x * points[i].x * points[i].y])
      Sxyy == Sum([i \in 1..n |-> points[i].x * points[i].y * points[i].y])
      A == n * Sxx - Sx * Sx
      B == n * Sxy - Sx * Sy
      C == n * Syy - Sy * Sy
  IN  [n |-> n, Sx |-> Sx, Sy |-> Sy, Sxx |-> Sxx, Syy |-> Syy,
       A |-> A, B |-> B, C |-> C,
       D2 |-> n * (Sxxx + Sxyy) - Sx * (Sxx + Syy),
       E2 |-> n * (Sxxy + Syyy) - Sy * (Sxx + Syy),
       det |-> A * C - B * B]

\* fitCircleAsEllipse after its test of det: centre, radius and the test of
\* the radius against 10 and canvas.width
circleOf(k) ==
  LET P == k.D2 * k.C - k.B * k.E2
      R == k.A * k.E2 - k.B * k.D2
      q == 2 * k.det
      g == GCD(Abs(q), GCD(Abs(P), Abs(R))) * (IF q < 0 THEN -1 ELSE 1)
      cxNum == P \div g
      cyNum == R \div g
      den == q \div g
      r2Num == (k.Sxx + k.Syy) * den * den
                 - 2 * den * (cxNum * k.Sx + cyNum * k.Sy)
                 + k.n * (cxNum * cxNum + cyNum * cyNum)
      r2Den == k.n * den * den
      whole == r2Num \div r2Den
  IN  IF r2Num < 100 * r2Den
           \/ whole > CanvasWidth * CanvasWidth
           \/ (whole = CanvasWidth * CanvasWidth /\ r2Num % r2Den # 0)
        THEN NullObj
        ELSE [cxNum |-> cxNum, cyNum |-> cyNum, den |-> den,
              r2Num |-> r2Num, r2Den |-> r2Den, rotation |-> 0]

\* fitCircleAsEllipse(points)
fitCircleAsEllipse(points, rounded) ==
  IF rounded = NullObj
    THEN LET k == circleCoefficients(points)
         IN  IF k.det = 0 THEN NullObj ELSE circleOf(k)
  ELSE IF rounded.negligible THEN NullObj
  ELSE IF rounded.r < 10 \/ rounded.r > CanvasWidth THEN NullObj
  ELSE [cxNum |-> rounded.cx, cyNum |-> rounded.cy, den |-> 1,
        r2Num |-> rounded.r * rounded.r, r2Den |-> 1, rotation |-> 0]

\* The conic fit solves a 5x5 system in floating point and takes square
\* roots; of these computations the model keeps the values the code decides
\* on and returns, given as numerics:
\*   negligible  some pivot of the elimination has maxVal < 1e-12
\*   disc        the sign of B*B - 4*A*C
\*   cx, cy      the centre
\*   rotation    0.5 * atan2(B, A - C), in degrees
\*   a2, b2      the squares of the semi-axes, -J/lambda1 and -J/lambda2;
\*               a positive one is the square of a whole number
\*   circle      rounded of the circle fit on the same points
\* A fitted conic is the record [cx, cy, major, minor, rotation], the rotation
\* in degrees.
\* Math.sqrt of the square of a whole number
sqrtOf(x) == CHOOSE r \in 0..(CanvasWidth + 1) : r * r = x

fitEllipseFull_noBoundsTest(points, numerics) ==
  IF numerics.negligible THEN fitCircleAsEllipse(points, numerics.circle)
  ELSE IF numerics.disc >= 0 THEN fitCircleAsEllipse(points, numerics.circle)
  ELSE IF numerics.a2 <= 0 \/ numerics.b2 <= 0 THEN fitCircleAsEllipse(points, numerics.circle)
  ELSE LET a == sqrtOf(numerics.a2)
           b == sqrtOf(numerics.b2)
       IN  [cx |-> numerics.cx, cy |-> numerics.cy,
            major |-> Max(a, b), minor |-> Min(a, b),
            rotation |-> IF b > a THEN numerics.rotation + 90 ELSE numerics.rotation]

\* fitEllipseFull(points), its computations giving numerics
fitEllipseFull(points, numerics) ==
  IF numerics.negligible THEN fitCircleAsEllipse(points, numerics.circle)
  ELSE IF numerics.disc >= 0 THEN fitCircleAsEllipse(points, numerics.circle)
  ELSE IF numerics.a2 <= 0 \/ numerics.b2 <= 0 THEN fitCircleAsEllipse(points, numerics.circle)
  ELSE LET a == sqrtOf(numerics.a2)
           b == sqrtOf(numerics.b2)
           major == Max(a, b)
           minor == Min(a, b)
           finalRotation == IF b > a THEN numerics.rotation + 90 ELSE numerics.rotation
       IN  IF major < 10 \/ major > CanvasWidth
             THEN fitCircleAsEllipse(points, numerics.circle)
             ELSE [cx |-> numerics.cx, cy |-> numerics.cy,
                   major |-> major, minor |-> minor, rotation |-> finalRotation]

\* fitEllipse(points), the computations of fitEllipseFull giving numerics
fitEllipse(points, numerics) ==
  IF Len(points) < 3 THEN NullObj
  ELSE IF Len(points) <= 4 THEN fitCircleAsEllipse(points, numerics.circle)
  ELSE fitEllipseFull(points, numerics)

\* no call of fitEllipse yet
NoFit == [points |-> <<>>, result |-> UndefinedObj]

\* ------------------------------------------- annotation tool: circle mode
\* The tool starts in circle mode.  Of its state the
\* record annot holds placingCircle, definingCircle, definePoints (a sequence
\* of [x, y]), circleAccepted, dragging (NullObj or the drag under way),
\* handleIndex and acceptDisabled (the disabled property of the Accept button).  A handler that reaches the tag store takes the tool a and
\* the store s and gives [a |-> the tool, s |-> the store] after it.
\* Angles are whole degrees, multiples of 90; a pointer event carries the
\* canvas coordinates canvasCoords(evt) gives.
\* canvas.height
CanvasHeight == 240

\* Math.cos and Math.sin of d degrees, d a multiple of 90
QCos(d) == <<1, 0, -1, 0>>[((d \div 90) % 4) + 1]
QSin(d) == <<0, 1, 0, -1>>[((d \div 90) % 4) + 1]

\* Math.atan2(dy, dx) in degrees; off the axes it is named, not computed
QAtan2(dy, dx) ==
  IF dy = 0 /\ dx >= 0 THEN 0
  ELSE IF dy = 0 THEN 180
  ELSE IF dx = 0 /\ dy > 0 THEN 90
  ELSE IF dx = 0 THEN -90
  ELSE [atan2 |-> <<dy, dx>>]

\* l < Math.SQRT2 * r
LessThanSqrt2Times(l, r) ==
  IF r > 0 THEN l < 0 \/ l * l < 2 * r * r
           ELSE l < 0 /\ l * l > 2 * r * r

\* the circle fit's descriptor as the numbers it stands for; the fitted
\* centre and radius are whole numbers for the points of the modelled runs
ellipseOf(result) ==
  IF "r2Num" \in DOMAIN result
    THEN [cx |-> result.cxNum \div result.den, cy |-> result.cyNum \div result.den,
          major |-> sqrtOf(result.r2Num \div result.r2Den),
          minor |-> sqrtOf(result.r2Num \div result.r2Den),
          rotation |-> result.rotation]
    ELSE result

toEllipseLocal(px, py, e) ==
  LET dx == px - e.cx
      dy == py - e.cy
      cos == QCos(-e.rotation)
      sin == QSin(-e.rotation)
  IN  [lx |-> dx * cos - dy * sin, ly |-> dx * sin + dy * cos]

\* The hit tests compare a distance computed in doubles with a threshold.
\* Between whole numbers the distance differs from the threshold by far more
\* than the doubles round, unless it equals it; then the doubles decide, and
\* they are exact only where every cosine and sine they multiply by is 0 or
\* 1 as a double.  The verdict of a comparison is "hit", "miss", or "edge"
\* where the exact distance equals the threshold and the doubles are not
\* exact; closer tells that the exact distance is below the threshold, tie
\* that it equals it.
Verdict(closer, tie, exact) ==
  IF closer THEN "hit" ELSE IF tie /\ ~exact THEN "edge" ELSE "miss"

\* hitTestHandle: the test of the rotate handle against the threshold 22
nearRotateHandle(l, e) ==
  LET rotDist == e.minor + 25
      d2 == l.lx * l.lx + (l.ly + rotDist) * (l.ly + rotDist)
  IN  Verdict(d2 < 22 * 22, d2 = 22 * 22, e.rotation = 0)

\* hitTestHandle: the test of handle i, at angle i * PI / 4, against the
\* threshold 22
nearHandle(i, l, e) ==
  IF i % 2 = 0
    THEN LET dx == l.lx - e.major * QCos(45 * i)
             dy == l.ly - e.minor * QSin(45 * i)
             d2 == dx * dx + dy * dy
         IN  Verdict(d2 < 22 * 22, d2 = 22 * 22, e.rotation = 0 /\ i = 0)
    ELSE LET sx == IF i \in {1, 7} THEN 1 ELSE -1
             sy == IF i \in {1, 3} THEN 1 ELSE -1
             lhs == 2 * l.lx * l.lx + 2 * l.ly * l.ly
                      + e.major * e.major + e.minor * e.minor - 2 * 22 * 22
             rhs == 2 * (sx * l.lx * e.major + sy * l.ly * e.minor)
         IN  Verdict(LessThanSqrt2Times(lhs, rhs), lhs = 0 /\ rhs = 0, FALSE)

\* hitTestHandle; its comparisons are numbered 0 for the rotate handle and
\* i + 1 for handle i, and pick is the comparison on an edge the doubles let
\* hit (-1 for none)
hitTestHandle(px, py, e, pick) ==
  LET l == toEllipseLocal(px, py, e)
      verdict(k) == IF k = 0 THEN nearRotateHandle(l, e) ELSE nearHandle(k - 1, l, e)
      hits == {k \in 0..8 : verdict(k) = "hit" \/ (verdict(k) = "edge" /\ pick = k)}
      first == CHOOSE k \in hits : \A j \in hits : k <= j
  IN  IF hits = {} THEN NullObj
      ELSE IF first = 0 THEN [type |-> "rotate"]
      ELSE [type |-> "handle", index |-> first - 1]

\* hitTestEllipseInterior: the test (lx / major) ** 2 + (ly / minor) ** 2 <= 1,
\* which a point of the outline passes where the doubles are exact
withinOutline(l, e) ==
  LET lhs == l.lx * l.lx * e.minor * e.minor + l.ly * l.ly * e.major * e.major
      rhs == e.major * e.major * e.minor * e.minor
      exact == e.rotation = 0 /\ (l.lx = 0 \/ l.ly = 0)
  IN  Verdict(lhs < rhs \/ (lhs = rhs /\ exact), lhs = rhs, exact)

\* hitTestEllipseInterior; inside is what the doubles give on the outline
hitTestEllipseInterior(px, py, e, inside) ==
  LET verdict == withinOutline(toEllipseLocal(px, py, e), e)
  IN  verdict = "hit" \/ (verdict = "edge" /\ inside)

\* hitTestDegreeLabel: the test of label i, at angle baseAngle + i * PI / 2,
\* against the threshold 36
nearDegreeLabel(i, zeroDegAngle, px, py, e) ==
  LET baseAngle == IF zeroDegAngle = Null THEN 0 ELSE zeroDegAngle
      theta == baseAngle + 90 * i
      lx == e.cx + e.major * QCos(theta) * QCos(e.rotation)
              - e.minor * QSin(theta) * QSin(e.rotation)
      ly == e.cy + e.major * QCos(theta) * QSin(e.rotation)
              + e.minor * QSin(theta) * QCos(e.rotation)
      d2 == (px - lx) * (px - lx) + (py - ly) * (py - ly)
  IN  Verdict(d2 < 36 * 36, d2 = 36 * 36, theta = 0 /\ e.rotation = 0)

\* hitTestDegreeLabel, with the store's circleZeroDegAngle; pick is the
\* label on an edge the doubles let hit (-1 for none)
hitTestDegreeLabel(a, zeroDegAngle, px, py, e, pick) ==
  IF ~a.circleAccepted THEN -1
  ELSE LET near(i) == nearDegreeLabel(i, zeroDegAngle, px, py, e)
           hits == {i \in 0..3 : near(i) = "hit" \/ (near(i) = "edge" /\ pick = i)}
       IN  IF hits = {} THEN -1 ELSE CHOOSE i \in hits : \A j \in hits : i <= j

\* switchMode(mode)
switchMode(a, mode) ==
  LET a1 == [a EXCEPT !.activeMode = mode]
      a2 == IF mode # "ball" THEN [a1 EXCEPT !.markingBall = FALSE] ELSE a1
  IN  IF mode # "circle"
        THEN [a2 EXCEPT !.placingCircle = FALSE, !.definingCircle = FALSE,
                        !.definePoints = <<>>]
        ELSE a2

\* the click listener of the Mark Ball button
markBallButton(a) == [a EXCEPT !.markingBall = ~a.markingBall]

\* onPointerDown; numerics as for fitEllipse, edge the outcome of the hit
\* tests where the doubles decide: [pick, inside]
onPointerDown(a, s, x, y, numerics, edge) ==
  IF a.activeMode # "circle" /\ a.activeMode # "ball" THEN [a |-> a, s |-> s]
  ELSE IF a.activeMode = "ball"
    THEN [a |-> a,
          s |-> IF a.markingBall THEN addBall(s, a.currentFrame, x, y) ELSE s]
  ELSE
  LET e == s.circleEllipse
  IN  IF a.definingCircle /\ Len(a.definePoints) < 5
        THEN LET points == Append(a.definePoints, [x |-> x, y |-> y])
                 a1 == [a EXCEPT !.definePoints = points]
             IN  IF Len(points) >= 5
                   THEN LET result == fitEllipse(points, numerics)
                        IN  IF result # NullObj
                              THEN LET s1 == setCircleEllipse(s, ellipseOf(result))
                                       s2 == IF s1.circleZeroDegAngle = Null
                                               THEN setCircleZeroDegAngle(s1, 0)
                                               ELSE s1
                                   IN  [a |-> updateCircleButtons(
                                                [a1 EXCEPT !.circleAccepted = TRUE,
                                                           !.definingCircle = FALSE], s2),
                                        s |-> s2]
                              ELSE [a |-> [a1 EXCEPT !.definePoints = <<>>], s |-> s]
                   ELSE [a |-> a1, s |-> s]
      ELSE IF a.placingCircle /\ e = NullObj
        THEN LET defaultRadius == CanvasHeight \div 10
                 s1 == setCircleEllipse(s, [cx |-> x, cy |-> y, major |-> defaultRadius,
                                            minor |-> defaultRadius, rotation |-> 0])
             IN  [a |-> updateCircleButtons([a EXCEPT !.placingCircle = FALSE], s1),
                  s |-> s1]
      ELSE IF e = NullObj THEN [a |-> a, s |-> s]
      ELSE IF a.circleAccepted
        THEN IF hitTestDegreeLabel(a, s.circleZeroDegAngle, x, y, e, edge.pick) = 0
               THEN [a |-> [a EXCEPT !.dragging = [type |-> "degLabel"]], s |-> s]
               ELSE [a |-> a, s |-> s]
      ELSE LET hit == hitTestHandle(x, y, e, edge.pick)
           IN  IF hit # NullObj
                 THEN [a |-> [a EXCEPT !.dragging = hit,
                                       !.handleIndex = IF hit.type = "handle"
                                                         THEN hit.index ELSE @],
                       s |-> s]
               ELSE IF hitTestEllipseInterior(x, y, e, edge.inside)
                 THEN [a |-> [a EXCEPT !.dragging =
                                [type |-> "move", startX |-> x, startY |-> y,
                                 origCx |-> e.cx, origCy |-> e.cy]],
                       s |-> s]
               ELSE [a |-> a, s |-> s]

\* tagger.dirty = true, an assignment to a binding of the imported module
\* namespace: it sets the store's dirty where the build lets it through
\* (writable), and throws where the namespace is read-only
assignDirty(s, writable) == IF writable THEN [s EXCEPT !.dirty = TRUE] ELSE s

\* Math.max(10, Math.abs(l) / Math.cos(Math.PI / 4)); above 10 it is named
diagonalAxis(l) ==
  IF 2 * l * l <= 10 * 10 THEN 10 ELSE [sqrt2times |-> Abs(l)]

\* onPointerMove; buttons is evt.buttons (Undefined on a touch event)
onPointerMove(a, s, x, y, buttons, writable) ==
  IF a.dragging = NullObj THEN [a |-> a, s |-> s]
  ELSE IF buttons # Undefined /\ buttons = 0
    THEN [a |-> [a EXCEPT !.dragging = NullObj, !.handleIndex = -1], s |-> s]
  ELSE IF s.circleEllipse = NullObj THEN [a |-> a, s |-> s]
  ELSE LET e == s.circleEllipse
           l == toEllipseLocal(x, y, e)
           i == a.handleIndex
       IN  IF a.dragging.type = "move"
             THEN [a |-> a,
                   s |-> assignDirty(
                           [s EXCEPT !.circleEllipse =
                              [e EXCEPT !.cx = a.dragging.origCx + (x - a.dragging.startX),
                                        !.cy = a.dragging.origCy + (y - a.dragging.startY)]],
                           writable)]
           ELSE IF a.dragging.type = "handle"
             THEN [a |-> a,
                   s |-> assignDirty(
                           [s EXCEPT !.circleEllipse =
                              IF i \in {0, 4} THEN [e EXCEPT !.major = Max(10, Abs(l.lx))]
                              ELSE IF i \in {2, 6} THEN [e EXCEPT !.minor = Max(10, Abs(l.ly))]
                              ELSE [e EXCEPT !.major = diagonalAxis(l.lx),
                                             !.minor = diagonalAxis(l.ly)]],
                           writable)]
           ELSE IF a.dragging.type = "rotate"
             THEN [a |-> a,
                   s |-> assignDirty(
                           [s EXCEPT !.circleEllipse =
                              [e EXCEPT !.rotation = QAtan2(y - e.cy, x - e.cx) + 90]],
                           writable)]
           ELSE \* degLabel
                [a |-> a,
                 s |-> setCircleZeroDegAngle(s, QAtan2(y - e.cy, x - e.cx) - e.rotation)]

\* onPointerUp; where tagger.dirty = true throws, the handler ends there
onPointerUp(a, s, writable, writeOk) ==
  IF a.dragging = NullObj THEN [a |-> a, s |-> s]
  ELSE LET wasDegLabel == a.dragging.type = "degLabel"
           a1 == [a EXCEPT !.dragging = NullObj, !.handleIndex = -1]
       IN  IF ~wasDegLabel /\ s.circleEllipse # NullObj
             THEN IF writable
                    THEN LET s1 == assignDirty(s, writable)
                         IN  [a |-> updateCircleButtons(a1, s1), s |-> s1]
                    ELSE [a |-> a, s |-> s]
           ELSE IF wasDegLabel
             THEN [a |-> updateCircleButtons(a1, s), s |-> save(s, writeOk)]
           ELSE [a |-> updateCircleButtons(a1, s), s |-> s]

\* the click listener of the Place button
placeButton(a, s) ==
  LET a1 == IF a.definingCircle
              THEN [a EXCEPT !.definingCircle = FALSE, !.definePoints = <<>>]
              ELSE a
      a2 == IF s.circleEllipse # NullObj /\ ~a1.circleAccepted
              THEN [a1 EXCEPT !.placingCircle = FALSE]
            ELSE IF s.circleEllipse = NullObj
              THEN [a1 EXCEPT !.placingCircle = ~a1.placingCircle]
            ELSE a1
  IN  [a |-> updateCircleButtons(a2, s), s |-> s]

\* the click listener of the Define button
defineButton(a, s) ==
  LET a1 == [a EXCEPT !.placingCircle = FALSE, !.definingCircle = ~a.definingCircle,
                      !.definePoints = <<>>]
      s1 == IF a1.definingCircle /\ s.circleEllipse # NullObj /\ ~a1.circleAccepted
              THEN clearCircleEllipse(s)
              ELSE s
  IN  [a |-> updateCircleButtons(a1, s1), s |-> s1]

\* the click listener of the Accept button, doSave() included
acceptButton(a, s, numerics, writeOk) ==
  LET result == fitEllipse(a.definePoints, numerics)
      fitted == Len(a.definePoints) >= 3
      a1 == IF fitted THEN [a EXCEPT !.definingCircle = FALSE, !.definePoints = <<>>]
                      ELSE a
      s1 == IF fitted THEN setCircleEllipse(s, ellipseOf(result)) ELSE s
      s2 == IF s1.circleZeroDegAngle = Null THEN setCircleZeroDegAngle(s1, 0) ELSE s1
  IN  IF fitted /\ result = NullObj THEN [a |-> a, s |-> s]
      ELSE IF s1.circleEllipse = NullObj THEN [a |-> a1, s |-> s1]
      ELSE [a |-> updateCircleButtons([a1 EXCEPT !.circleAccepted = TRUE], s2),
            s |-> save(s2, writeOk)]

\* the click listener of the Reset button
resetButton(a, s) ==
  LET s1 == setCircleZeroDegAngle(clearCircleEllipse(s), Null)
      a1 == [a EXCEPT !.circleAccepted = FALSE, !.placingCircle = FALSE,
                      !.definingCircle = FALSE, !.definePoints = <<>>]
  IN  [a |-> refreshTagUI(updateCircleButtons(a1, s1), s1), s |-> s1]

\* --------------------------------------------------------------- behaviour
\* number of frames of the video (info.total_frames)
NumFrames == MaxFrame + 1

StorageKeys == {StorageKey(b) : b \in Basenames}

\* install the store state s as the next state
Commit(s, op, frame) ==
  /\ throwStart' = s.throwStart
  /\ release' = s.release
  /\ turnBoundaries' = s.turnBoundaries
  /\ ssBoundaries' = s.ssBoundaries
  /\ dsBoundaries' = s.dsBoundaries
  /\ ballMarkers' = s.ballMarkers
  /\ ballMode' = s.ballMode
  /\ circleDegZero' = s.circleDegZero
  /\ circleZeroMode' = s.circleZeroMode
  /\ circleEllipse' = s.circleEllipse
  /\ circleZeroDegAngle' = s.circleZeroDegAngle
  /\ dirty' = s.dirty
  /\ undoStack' = s.undoStack
  /\ _totalFrames' = s._totalFrames
  /\ _basename' = s._basename
  /\ localStorage' = s.localStorage
  /\ last' = [op |-> op, frame |-> frame, ret |-> s.ret]

\* a call of an exported function of the tag store; the program goes on for
\* ever, the model stops after MaxCalls calls
Call(s, op, frame) ==
  /\ calls < MaxCalls
  /\ calls' = calls + 1
  /\ Commit(s, op, frame)

\* a call made by a caller other than the modelled tools
StoreCall(s, op, frame) == Call(s, op, frame) /\ UNCHANGED toolVars

\* start-up of the tag store: the module is evaluated, then init() and
\* load() run
startSession(storage, basename) ==
  load(init(ModuleInit(storage), NumFrames, basename))

\* A storage an earlier session left behind: what save() wrote after the
\* calls below were made on the empty record of a session on video basename.
EarlierSession(basename) ==
  LET s0  == init(ModuleInit([k \in StorageKeys |-> NullObj]), NumFrames, basename)
      s1  == setT0(s0, MaxFrame - 1)
      s2  == setRelease(s1, MaxFrame)
      s3  == addTurn(addTurn(s2, MaxFrame), 0)
      s4  == addBall(s3, MaxFrame, 3, 7)
      s5  == addBall(s4, 0, 5, 2)
      s6  == setCircleEllipse(s5, CHOOSE e \in Ellipses : e.rotation = 0)
      s7  == setCircleZeroDegAngle(s6, 0)
      s8  == setCircleZeroPoint(s7, 5, 2)
  IN  save(s8, TRUE).localStorage

\* the storages a first modelled session can find
InitialStorages ==
  {[k \in StorageKeys |-> NullObj], EarlierSession("a")}

Init ==
  /\ calls = 0
  /\ fit = NoFit
  /\ annot = AnnotModuleInit
  /\ viewer = ViewerModuleInit
  /\ app = AppModuleInit
  /\ \E storage \in InitialStorages, b \in Basenames :
       LET s == startSession(storage, b)
       IN  /\ throwStart = s.throwStart
           /\ release = s.release
           /\ turnBoundaries = s.turnBoundaries
           /\ ssBoundaries = s.ssBoundaries
           /\ dsBoundaries = s.dsBoundaries
           /\ ballMarkers = s.ballMarkers
           /\ ballMode = s.ballMode
           /\ circleDegZero = s.circleDegZero
           /\ circleZeroMode = s.circleZeroMode
           /\ circleEllipse = s.circleEllipse
           /\ circleZeroDegAngle = s.circleZeroDegAngle
           /\ dirty = s.dirty
           /\ undoStack = s.undoStack
           /\ _totalFrames = s._totalFrames
           /\ _basename = s._basename
           /\ localStorage = s.localStorage
           /\ last = [op |-> "load", frame |-> Null, ret |-> s.ret]

SetT0(f) == StoreCall(setT0(Store, f), "setT0", f)
SetRelease(f) == StoreCall(setRelease(Store, f), "setRelease", f)
AddTurn(f) == StoreCall(addTurn(Store, f), "addTurn", f)
AddSS(f) == StoreCall(addSS(Store, f), "addSS", f)
AddDS(f) == StoreCall(addDS(Store, f), "addDS", f)
AddBall(f, x, y) == StoreCall(addBall(Store, f, x, y), "addBall", f)
DeleteAtFrame(f) == StoreCall(deleteAtFrame(Store, f), "deleteAtFrame", f)
SetCircleZeroPoint(x, y) ==
  StoreCall(setCircleZeroPoint(Store, x, y), "setCircleZeroPoint", Null)
SetCircleEllipse(params) ==
  StoreCall(setCircleEllipse(Store, params), "setCircleEllipse", Null)
SetCircleZeroDegAngle(angle) ==
  StoreCall(setCircleZeroDegAngle(Store, angle), "setCircleZeroDegAngle", Null)
Undo == StoreCall(undo(Store), "undo", Null)
Save(writeOk) == StoreCall(save(Store, writeOk), "save", Null)
\* a new session (possibly for another video): the modules are evaluated
\* anew and the caller runs init() and load() on the storage the previous
\* sessions left
StartSession(b) ==
  /\ Commit(startSession(localStorage, b), "load", Null)
  /\ annot' = AnnotModuleInit
  /\ viewer' = ViewerModuleInit
  /\ app' = AppModuleInit
  /\ fit' = NoFit
  /\ UNCHANGED calls

Next ==
  \/ \E f \in Frames : SetT0(f)
  \/ \E f \in Frames : SetRelease(f)
  \/ \E f \in Frames : AddTurn(f)
  \/ \E f \in Frames : AddSS(f)
  \/ \E f \in Frames : AddDS(f)
  \/ \E f \in Frames, p \in Points : AddBall(f, p.x, p.y)
  \/ \E f \in Frames : DeleteAtFrame(f)
  \/ \E p \in Points : SetCircleZeroPoint(p.x, p.y)
  \/ \E params \in Ellipses \cup {NullObj} : SetCircleEllipse(params)
  \/ \E angle \in Angles \cup {Null} : SetCircleZeroDegAngle(angle)
  \/ Undo
  \/ \E writeOk \in BOOLEAN : Save(writeOk)
  \/ \E b \in Basenames : StartSession(b)

Spec == Init /\ [][Next]_vars


\* ------------------------------------------- behaviour of the annotation tool
MaxSkip == 2
MaxClicks == 1

\* metadata.json: missing, with the pipeline's turn boundaries and throw
\* window but no highpoint, or with highpoint frame 0 or 1
Metadatas ==
  {NullObj}
    \cup {[hammer_highpoint_frame |-> Undefined, turn_boundaries |-> <<1>>,
           throw_window |-> [start |-> 0, release |-> NumFrames - 1]]}
    \cup {[hammer_highpoint_frame |-> h] : h \in {0, 1}}

AnnotInit ==
  /\ calls = 0
  /\ fit = NoFit
  /\ viewer = ViewerModuleInit
  /\ app = AppModuleInit
  /\ \E storage \in InitialStorages, fpsx2 \in FpsSet, metadata \in Metadatas :
       LET s == startSession(storage, "a")
       IN  /\ throwStart = s.throwStart
           /\ release = s.release
           /\ turnBoundaries = s.turnBoundaries
           /\ ssBoundaries = s.ssBoundaries
           /\ dsBoundaries = s.dsBoundaries
           /\ ballMarkers = s.ballMarkers
           /\ ballMode = s.ballMode
           /\ circleDegZero = s.circleDegZero
           /\ circleZeroMode = s.circleZeroMode
           /\ circleEllipse = s.circleEllipse
           /\ circleZeroDegAngle = s.circleZeroDegAngle
           /\ dirty = s.dirty
           /\ undoStack = s.undoStack
           /\ _totalFrames = s._totalFrames
           /\ _basename = s._basename
           /\ localStorage = s.localStorage
           /\ last = [op |-> "load", frame |-> Null, ret |-> s.ret]
           /\ annot = annotMain(s, fpsx2, NumFrames, metadata)

\* the click listener of a tag button: the tag action, then refreshTagUI();
\* the model follows a run up to MaxClicks clicks on the buttons of the tags
\* toolbar
TagButton(s, op) ==
  /\ calls < MaxClicks
  /\ calls' = calls + 1
  /\ Commit(s, op, annot.currentFrame)
  /\ annot' = refreshTagUI(annot, s)
  /\ UNCHANGED <<viewer, app, fit>>

\* a handler of the tool that leaves the tag store alone
ToolStep(a) ==
  /\ annot' = a
  /\ UNCHANGED <<storeVars, last, calls, viewer, app, fit>>

ClickT0 == TagButton(setT0(Store, annot.currentFrame), "setT0")
ClickRelease == TagButton(setRelease(Store, annot.currentFrame), "setRelease")
ClickTurn == TagButton(addTurn(Store, annot.currentFrame), "addTurn")
ClickSS == TagButton(addSS(Store, annot.currentFrame), "addSS")
ClickDS == TagButton(addDS(Store, annot.currentFrame), "addDS")
ClickUndo == TagButton(undo(Store), "undo")
ClickDelete == TagButton(deleteAtFrame(Store, annot.currentFrame), "deleteAtFrame")
RangeButton(r) ==
  ToolStep(applyTimelineRange([annot EXCEPT !.activeRange = r], Store))
StepBack == ToolStep(seekToFrame(annot, annot.currentFrame - 1))
StepFwd == ToolStep(seekToFrame(annot, annot.currentFrame + 1))
KeyHome == ToolStep(seekToFrame(annot, 0))
KeyEnd == ToolStep(seekToFrame(annot, annot.totalFrames - 1))
TogglePlay == ToolStep(togglePlay(annot))
ScrubberInput(v) == ToolStep(scrubberInput(annot, v))
MarkerClick(f) == ToolStep(seekToFrame(annot, f))
\* a click on the Show-auto button counts among the MaxClicks clicks
ShowAutoButton ==
  /\ annot.autoButtonDisplay # "none"
  /\ calls < MaxClicks
  /\ calls' = calls + 1
  /\ annot' = showAutoButton(annot)
  /\ UNCHANGED <<storeVars, last, viewer, app, fit>>
\* the video element plays on: by the next look its position is d frames on
VideoPlays(d) ==
  /\ ~annot.videoPaused
  /\ ~videoEnded(annot)
  /\ ToolStep([annot EXCEPT !.videoFrame = Min(@ + d, annot.totalFrames)])
RenderTick == ToolStep(renderLoop(annot, Store))

AnnotNext ==
  \/ ClickT0
  \/ ClickRelease
  \/ ClickTurn
  \/ ClickSS
  \/ ClickDS
  \/ ClickUndo
  \/ ClickDelete
  \/ \E r \in {"all", "wind", "throw"} : RangeButton(r)
  \/ StepBack
  \/ StepFwd
  \/ KeyHome
  \/ KeyEnd
  \/ TogglePlay
  \/ \E v \in annot.scrubber.min..annot.scrubber.max : ScrubberInput(v)
  \/ \E f \in clickableMarkers(annot) : MarkerClick(f)
  \/ ShowAutoButton
  \/ \E d \in 1..MaxSkip : VideoPlays(d)
  \/ RenderTick

AnnotSpec == AnnotInit /\ [][AnnotNext]_vars

\* ------------------------------------------------- behaviour of the players
\* Each of the three tools is a page of its own: a run opens one of them and
\* the user plays, scrubs and steps in it.

\* the store starts as s, left by a call of op
StoreStartsWith(s, op) ==
  /\ throwStart = s.throwStart
  /\ release = s.release
  /\ turnBoundaries = s.turnBoundaries
  /\ ssBoundaries = s.ssBoundaries
  /\ dsBoundaries = s.dsBoundaries
  /\ ballMarkers = s.ballMarkers
  /\ ballMode = s.ballMode
  /\ circleDegZero = s.circleDegZero
  /\ circleZeroMode = s.circleZeroMode
  /\ circleEllipse = s.circleEllipse
  /\ circleZeroDegAngle = s.circleZeroDegAngle
  /\ dirty = s.dirty
  /\ undoStack = s.undoStack
  /\ _totalFrames = s._totalFrames
  /\ _basename = s._basename
  /\ localStorage = s.localStorage
  /\ last = [op |-> op, frame |-> Null, ret |-> s.ret]

\* the store starts as s, left by load()
StoreStartsAs(s) == StoreStartsWith(s, "load")

\* keypoints.bin of a recording of T frames: 70 keypoints of 3 coordinates a
\* frame, the values a pattern of step m
KeypointsData(T, m) ==
  [length |-> T * 70 * 3, cycle |-> [j \in 1..19 |-> (((j - 1) * m) % 19) - 9]]

\* hammer.bin of the recording the player runs open: the last frame is invalid
PlayerHammerData(T) ==
  [i \in 1..(T * 3) |-> IF i > (T - 1) * 3 THEN 0 ELSE ((i * 2) % 7) + 1]

\* the frame rates of the recordings: at 25 frames a second every frame
\* duration is a whole number of ms, at 30 none is and no double holds one
RecordingFps == {25, 30}

PlayerMetadata(T, coord_space, t0, fps) ==
  [frame_count |-> T, coord_space |-> coord_space,
   turn_boundaries |-> <<0, T - 1>>,
   throw_window |-> [start |-> t0, release |-> T - 1], fps |-> fps]

\* the files the server may hold for a recording of T frames: the whole file,
\* or one that ends a frame early
KeypointsFiles(T, m) == {KeypointsData(T, m), KeypointsData(T - 1, m)}
HammerFiles(T) == {PlayerHammerData(T), SubSeq(PlayerHammerData(T), 1, (T - 1) * 3)}

\* the keypoint indices the model asks getKp for
KpIndices == {0, 1, 69}

\* metadata.json of the tagger app: missing, or with a turn boundary at
\* frame 1 and the release at the last frame
AppMetadatas ==
  {NullObj, [turn_boundaries |-> <<1>>,
             throw_window |-> [start |-> 0, release |-> NumFrames - 1]]}

PlayerInit ==
  /\ calls = 0
  /\ fit = NoFit
  /\ StoreStartsAs(startSession([k \in StorageKeys |-> NullObj], "a"))
  /\ \/ /\ \E coord_space \in {"world", "camera"}, m \in {1, 7},
                t0 \in {1, NumFrames - 1}, fps \in RecordingFps :
             \E keypoints \in KeypointsFiles(NumFrames, m),
                hammer \in HammerFiles(NumFrames) :
               viewer \in Opened(RecordingServer(
                                  PlayerMetadata(NumFrames, coord_space, t0, fps),
                                  keypoints, hammer))
        /\ app = AppModuleInit
        /\ annot = AnnotModuleInit
     \/ /\ viewer = ViewerModuleInit
        /\ \E metadata \in AppMetadatas : app = appMain(NumFrames, metadata)
        /\ annot = AnnotModuleInit
     \/ /\ viewer = ViewerModuleInit
        /\ app = AppModuleInit
        /\ \E fpsx2 \in FpsSet :
             annot = annotMain(Store, fpsx2, NumFrames, [hammer_highpoint_frame |-> 1])

\* a handler of the 3D viewer
ViewerStep(v) ==
  /\ viewer.ready
  /\ viewer' = v
  /\ UNCHANGED <<storeVars, last, calls, annot, app, fit>>

ViewerScrubberInput(value) == ViewerStep(viewerScrubberInput(viewer, value))
\* The render ticks and the clicks on the play button come TickGap ms after
\* the event of the page before them, up to MaxTime.
MaxTime == 160
TickGaps == {20, 30}
\* where the clock is not what is looked at, events are a frame duration apart
FrameGaps == {40}

\* an event of the page gap ms after the one before it
ClockStep(v, gap) ==
  /\ viewer.now + gap <= MaxTime
  /\ ViewerStep([v EXCEPT !.now = viewer.now + gap])

ViewerPlayButton(gap) ==
  LET t == viewerPlayButton(viewer, viewer.now + gap)
  IN  ClockStep([t EXCEPT !.lastAdvance = IF t.playing THEN viewer.now + gap
                                          ELSE viewer.lastAdvance], gap)
ViewerRangeButton(r) ==
  ViewerStep(viewerApplyTimelineRange([viewer EXCEPT !.activeRangePreset = r]))
ViewerResize == ViewerStep(viewerApplyTimelineRange(viewer))
ViewerArrowLeft ==
  ViewerStep(setFrame(viewer, Max(viewer.timelineMin, viewer.currentFrame - 1)))
ViewerArrowRight ==
  ViewerStep(setFrame(viewer, Min(viewer.timelineMax, viewer.currentFrame + 1)))
ViewerHome == ViewerStep(setFrame(viewer, viewer.timelineMin))
ViewerEnd == ViewerStep(setFrame(viewer, viewer.timelineMax))
Animate(gap, short) ==
  LET now == viewer.now + gap
      t == animate(viewer, now, short)
  IN  ClockStep([t EXCEPT !.lastAdvance =
                   IF t.lastFrameTime # viewer.lastFrameTime \/ t.currentFrame # viewer.currentFrame
                     THEN now ELSE viewer.lastAdvance], gap)
\* a reader of the keypoints asks for keypoint idx of a frame
GetKp(frame, idx) == ViewerStep([viewer EXCEPT !.kp = getKp(viewer, frame, idx)])

\* a handler of the tagger app
AppStep(a) ==
  /\ app.videoReady
  /\ app' = a
  /\ UNCHANGED <<storeVars, last, calls, annot, viewer, fit>>

AppTogglePlay == AppStep(appTogglePlay(app))
AppScrubberInput(v) == AppStep(appScrubberInput(app, v))
AppStepBack == AppStep(appSeekToFrame(app, app.currentFrame - 1))
AppStepFwd == AppStep(appSeekToFrame(app, app.currentFrame + 1))
AppHome == AppStep(appSeekToFrame(app, 0))
AppEnd == AppStep(appSeekToFrame(app, app.totalFrames - 1))
\* the click listener of an auto marker or of a manual marker
AppMarkers == app.autoMarkers \cup manualMarkers(Store, 0, _totalFrames - 1)
AppMarkerClick(f) == AppStep(appSeekToFrame(app, f))
AppVideoPlays(d) ==
  /\ ~app.videoPaused
  /\ ~videoEnded(app)
  /\ AppStep([app EXCEPT !.videoFrame = Min(@ + d, app.totalFrames)])
AppRenderTick == AppStep(appRenderLoop(app))

\* the annotation tool is the page that is open
AnnotOpen == annot.totalFrames > 0

PlayerNext ==
  \/ \E value \in viewer.scrubber.min..viewer.scrubber.max : ViewerScrubberInput(value)
  \/ \E gap \in FrameGaps : ViewerPlayButton(gap)
  \/ \E r \in {"all", "wind", "throw"} : ViewerRangeButton(r)
  \/ ViewerResize
  \/ ViewerArrowLeft
  \/ ViewerArrowRight
  \/ ViewerHome
  \/ ViewerEnd
  \/ \E gap \in FrameGaps, short \in BOOLEAN : Animate(gap, short)
  \/ \E frame \in 0..(NumFrames - 1), idx \in KpIndices : GetKp(frame, idx)
  \/ AppTogglePlay
  \/ \E v \in app.scrubber.min..app.scrubber.max : AppScrubberInput(v)
  \/ AppStepBack
  \/ AppStepFwd
  \/ AppHome
  \/ AppEnd
  \/ \E f \in AppMarkers : AppMarkerClick(f)
  \/ \E d \in 1..MaxSkip : AppVideoPlays(d)
  \/ AppRenderTick
  \/ AnnotOpen /\ \E r \in {"all", "wind", "throw"} : RangeButton(r)
  \/ AnnotOpen /\ StepBack
  \/ AnnotOpen /\ StepFwd
  \/ AnnotOpen /\ KeyHome
  \/ AnnotOpen /\ KeyEnd
  \/ AnnotOpen /\ TogglePlay
  \/ AnnotOpen /\ \E v \in annot.scrubber.min..annot.scrubber.max : ScrubberInput(v)
  \/ AnnotOpen /\ \E d \in 1..MaxSkip : VideoPlays(d)
  \/ AnnotOpen /\ RenderTick

PlayerSpec == PlayerInit /\ [][PlayerNext]_vars

\* ------------------------------------------- behaviour of the hammer overlay
\* The viewer is opened on a recording of MaxHammerFrame + 1 frames; main()
\* computes the orbit extremes, and the user scrubs through the frames.
MaxHammerFrame == 3

\* hammer samples: the zero vector and a NaN sample (both invalid), and two
\* valid samples of height 1 and 2, the first with x = 0
HammerSamples == {<<0, 0, 0>>, <<NaN, 1, 1>>, <<0, 1, 0>>, <<1, 2, 1>>}

\* hammer.bin: the samples of all frames, flattened
RECURSIVE Flatten(_)
Flatten(samples) ==
  IF samples = <<>> THEN <<>> ELSE Head(samples) \o Flatten(Tail(samples))

\* the ascending lists of at most 3 frames out of 0..n
AscendingLists(n) ==
  {<<>>} \cup {<<a>> : a \in 0..n}
         \cup {q \in {<<a, b>> : a \in 0..n, b \in 0..n} : q[1] < q[2]}
         \cup {q \in {<<a, b, c>> : a \in 0..n, b \in 0..n, c \in 0..n} :
                 q[1] < q[2] /\ q[2] < q[3]}

\* metadata.json: turn_boundaries missing or an ascending list of frames,
\* throw_window missing or frames 1 to 2
OrbitMetadatas ==
  LET T == MaxHammerFrame + 1
      Spaces == {"world", "camera"}
      Lists == AscendingLists(MaxHammerFrame)
      tw == [start |-> 1, release |-> 2]
  IN  {[frame_count |-> T, coord_space |-> c] : c \in Spaces}
      \cup {[frame_count |-> T, coord_space |-> c, throw_window |-> tw] : c \in Spaces}
      \cup {[frame_count |-> T, coord_space |-> c, turn_boundaries |-> b] :
              c \in Spaces, b \in Lists}
      \cup {[frame_count |-> T, coord_space |-> c, turn_boundaries |-> b,
              throw_window |-> tw] : c \in Spaces, b \in Lists}

OrbitInit ==
  /\ calls = 0
  /\ fit = NoFit
  /\ StoreStartsAs(startSession([k \in StorageKeys |-> NullObj], "a"))
  /\ app = AppModuleInit
  /\ annot = AnnotModuleInit
  /\ \E samples \in [1..(MaxHammerFrame + 1) -> HammerSamples],
        metadata \in OrbitMetadatas, whole \in BOOLEAN :
       viewer = loadData(ViewerModuleInit,
                         RecordingServer(metadata,
                                         KeypointsData(MaxHammerFrame + 1, 1),
                                         IF whole THEN Flatten(samples)
                                         ELSE Flatten(SubSeq(samples, 1, MaxHammerFrame)))).v

\* loadData() has returned: main() goes on with the loaded data
ViewerMain ==
  /\ viewer.metadata # NullObj
  /\ ~viewer.ready
  /\ \E below \in Roundings(viewer) : viewer' = mainAfterLoad(viewer, below)
  /\ UNCHANGED <<storeVars, last, calls, annot, app, fit>>

OrbitNext ==
  \/ ViewerMain
  \/ \E value \in viewer.scrubber.min..viewer.scrubber.max : ViewerScrubberInput(value)

OrbitSpec == OrbitInit /\ [][OrbitNext]_vars

\* ------------------------------------------------ behaviour of the circle fit
\* fitEllipse is called on the points the user has clicked: up to MaxPoints
\* points with coordinates out of PixelCoords, or three clicks of
\* SubPixelClicks.
MaxPoints == 3
PixelCoords == {0, 8, 16}
Pixels == {[x |-> x, y |-> y] : x \in PixelCoords, y \in PixelCoords}

\* the lists of up to n pixels
RECURSIVE PixelLists(_)
PixelLists(n) ==
  IF n = 0 THEN {<<>>}
  ELSE PixelLists(n - 1)
       \cup {Append(l, p) : l \in {m \in PixelLists(n - 1) : Len(m) = n - 1},
                            p \in Pixels}

\* what the computations of the conic fit can give: a negligible pivot, a
\* discriminant that is not negative, or squared semi-axes around the bounds
\* the code tests them against
AxisSquares ==
  {-4, 0, 81, 100, 144, CanvasWidth * CanvasWidth, (CanvasWidth + 1) * (CanvasWidth + 1)}
ConicNumerics ==
  {[negligible |-> n, disc |-> d, cx |-> 8, cy |-> 8, rotation |-> 0,
    a2 |-> 0, b2 |-> 0, circle |-> NullObj] : n \in BOOLEAN, d \in {0, 1}}
  \cup {[negligible |-> FALSE, disc |-> -1, cx |-> 8, cy |-> 8, rotation |-> 0,
          a2 |-> a2, b2 |-> b2, circle |-> NullObj] :
           a2 \in AxisSquares, b2 \in AxisSquares}

\* Clicks that hold tenths of a pixel, as three points with ten times their
\* coordinates, and what the doubles of fitCircleAsEllipse give on them:
\*   (100.1, 200.3), (300.7, 200.3), (500.9, 200.3), on one line: det is
\*     -1.40e-5, the centre (300.47, -0) and the radius 258.64
\*   (120.4, 90.7), (250.2, 90.7), (410.9, 90.7), on one line: det is
\*     -1.85e-6, the centre (268.19, -1072.75) and the radius 1169.52
\*   (100.5, 200.1), (300.5, 200.1), (500.5, 200.1), on one line: det is 0
\*   (100.1, 200.3), (300.7, 250.2), (500.9, 200.3), on no line: det is
\*     1.20e9, the centre (300.50, -177.16) and the radius 427.36
SubPixelClicks ==
  {[points |-> <<[x |-> 1001, y |-> 2003], [x |-> 3007, y |-> 2003],
                 [x |-> 5009, y |-> 2003]>>,
    rounded |-> [negligible |-> FALSE, cx |-> 300, cy |-> 0, r |-> 259]],
   [points |-> <<[x |-> 1204, y |-> 907], [x |-> 2502, y |-> 907],
                 [x |-> 4109, y |-> 907]>>,
    rounded |-> [negligible |-> FALSE, cx |-> 268, cy |-> -1073, r |-> 1170]],
   [points |-> <<[x |-> 1005, y |-> 2001], [x |-> 3005, y |-> 2001],
                 [x |-> 5005, y |-> 2001]>>,
    rounded |-> [negligible |-> TRUE, cx |-> 0, cy |-> 0, r |-> 0]],
   [points |-> <<[x |-> 1001, y |-> 2003], [x |-> 3007, y |-> 2502],
                 [x |-> 5009, y |-> 2003]>>,
    rounded |-> [negligible |-> FALSE, cx |-> 301, cy |-> -177, r |-> 427]]}

FitInit ==
  /\ calls = 0
  /\ StoreStartsAs(startSession([k \in StorageKeys |-> NullObj], "a"))
  /\ app = AppModuleInit
  /\ annot = AnnotModuleInit
  /\ viewer = ViewerModuleInit
  /\ \/ \E points \in PixelLists(MaxPoints) :
          fit = [points |-> points, rounded |-> NullObj, result |-> UndefinedObj]
     \/ \E clicks \in SubPixelClicks :
          fit = [points |-> clicks.points, rounded |-> clicks.rounded,
                 result |-> UndefinedObj]

\* fitEllipse(points) is called
FitEllipse ==
  /\ fit.result = UndefinedObj
  /\ \E numerics \in ConicNumerics :
       fit' = [fit EXCEPT !.result =
                 fitEllipse(fit.points, [numerics EXCEPT !.circle = fit.rounded])]
  /\ UNCHANGED <<storeVars, last, calls, annot, viewer, app>>

FitNext == FitEllipse

FitSpec == FitInit /\ [][FitNext]_vars

\* ------------------------------------------------------- behaviour of load
\* A session of the tag store starts on a document some writer left in localStorage: the
\* tool's own save() or the pipeline's export with its legacy keys.

\* the lists of frames a stored document may hold
FrameLists == {<<>>, <<0>>, <<MaxFrame>>, <<0, 1>>, <<1, MaxFrame>>, <<0, 1, MaxFrame>>}

\* the state codes of a combined support list
StateLists == {<<>>, <<1>>, <<2, 1>>, <<1, 0, 2>>, <<3, 2, 1>>}

\* a function without arguments: the keys a document does not have
NoKeys == [k \in {} |-> JNull]

\* the T0 part of a document
T0Parts ==
  {NoKeys, [throw_start |-> JNull]} \cup {[throw_start |-> JNum(f)] : f \in {0, 1}}

\* the turn part: no key, turn_boundaries, turn_boundaries_all, or both
TurnParts ==
  {NoKeys}
  \cup {[turn_boundaries |-> JArr(b)] : b \in FrameLists}
  \cup {[turn_boundaries_all |-> JArr(b)] : b \in FrameLists}
  \cup {[turn_boundaries |-> JArr(<<1>>), turn_boundaries_all |-> JArr(b)] :
          b \in {<<0, 1, MaxFrame>>}}

\* the support part: no key, separate lists, the combined lists, or both
SupportParts ==
  {NoKeys, [support_boundaries |-> JArr(<<0, 1>>)]}
  \cup {[ss_boundaries |-> JArr(a), ds_boundaries |-> JArr(b)] :
          a \in {<<>>, <<0>>}, b \in {<<>>, <<1, MaxFrame>>}}
  \cup {[support_boundaries |-> JArr(<<0, 1, MaxFrame>>), support_states |-> JArr(c)] :
          c \in StateLists}
  \cup {[ss_boundaries |-> JArr(<<MaxFrame>>), ds_boundaries |-> JArr(<<0>>),
         support_boundaries |-> JArr(<<0, 1>>), support_states |-> JArr(c)] :
          c \in {<<2, 1>>}}

StoredDocuments ==
  {t0 @@ turns @@ support : t0 \in T0Parts, turns \in TurnParts,
                            support \in SupportParts}

LoadInit ==
  /\ calls = 0
  /\ fit = NoFit
  /\ annot = AnnotModuleInit
  /\ viewer = ViewerModuleInit
  /\ app = AppModuleInit
  /\ \E doc \in StoredDocuments :
       StoreStartsWith(init(ModuleInit([k \in StorageKeys |->
                                          IF k = StorageKey("a") THEN doc ELSE NullObj]),
                            NumFrames, "a"),
                       "init")

\* main() calls load()
Load == /\ last.op = "init"
        /\ Commit(load(Store), "load", Null)
        /\ UNCHANGED <<calls, toolVars>>

LoadNext == Load

LoadSpec == LoadInit /\ [][LoadNext]_vars

\* ------------------------------------------- behaviour of the viewer start-up
\* The viewer page is opened against a server; afterwards the user plays,
\* scrubs and steps.
OptionalNames == {OptionalFiles[i].file : i \in 1..Len(OptionalFiles)}
RequiredNames == {"vertices", "faces", "keypoints", "hammer"}

\* the files a recording has, when all are served
ServedFile(name, T) ==
  IF name = "keypoints" THEN KeypointsData(T, 1)
  ELSE IF name = "hammer" THEN PlayerHammerData(T)
  ELSE IF name \in {"vertices", "faces"} THEN <<1, 2, 3>>
  ELSE IF name = "separation" THEN [i \in 1..T |-> 10 + i]
  ELSE IF name = "back_lean" THEN [i \in 1..T |-> 20 + i]
  ELSE [i \in 1..T |-> 1]

\* the sets of optional files a metadata.json declares
DeclaredFiles ==
  {{}, OptionalNames} \cup {{n} : n \in OptionalNames}
  \cup {{"fill_type", "separation"}, {"separation", "back_lean"}}

\* how the fetch of file n may fail; the body of the error page is read as
\* the array of the file
Failures(n) ==
  {[status |-> "networkError"]}
  \cup {[status |-> "errorPage", aligned |-> b,
          data |-> IF n = "keypoints"
                     THEN [length |-> Len(ErrorPageData), cycle |-> ErrorPageData]
                     ELSE ErrorPageData] : b \in BOOLEAN}

\* keypoints.bin and hammer.bin of a recording whose torso stands at a right
\* angle to the direction of the hammer in every frame: the left shoulder at
\* (-9, 2, 3), every other keypoint at the origin, the hammer at (1, 1, 3)
RightAngleKeypoints(T) ==
  [length |-> T * 70 * 3,
   cycle |-> [i \in 1..(70 * 3) |->
                IF (i - 1) \div 3 = KP_LEFT_SHOULDER
                  THEN <<-9, 2, 3>>[((i - 1) % 3) + 1] ELSE 0]]
RightAngleHammer(T) == [i \in 1..(T * 3) |-> <<1, 1, 3>>[((i - 1) % 3) + 1]]

\* a server that serves the recording, of the coordinate space given, with
\* the optional files in declared
GoodServer(declared, T, coord_space) ==
  [n \in {"metadata"} \cup RequiredNames \cup OptionalNames |->
     IF n = "metadata"
       THEN [status |-> "ok",
             data |-> [frame_count |-> T, coord_space |-> coord_space, fps |-> 25,
                       turn_boundaries |-> <<0, T - 1>>, files |-> declared]]
       ELSE [status |-> "ok", data |-> ServedFile(n, T)]]

\* the servers: a good one, one whose pipeline arrays have the wrong length,
\* one whose keypoints.bin or hammer.bin ends a frame early, one whose
\* recording has the torso at a right angle to the hammer, or one where the
\* fetch of one file fails
Servers ==
  LET T == NumFrames
      Spaces == {"camera", "world"}
  IN  {GoodServer(d, T, c) : d \in DeclaredFiles, c \in Spaces}
      \cup {[GoodServer({"separation", "back_lean"}, T, c) EXCEPT
               !.separation.data = [i \in 1..(T - 1) |-> 10 + i],
               !.back_lean.data = [i \in 1..(T + 1) |-> 20 + i]] : c \in Spaces}
      \cup {[GoodServer({}, T, c) EXCEPT !.keypoints.data = KeypointsData(T - 1, 1)] :
              c \in Spaces}
      \cup {[GoodServer({}, T, c) EXCEPT
               !.hammer.data = SubSeq(PlayerHammerData(T), 1, (T - 1) * 3)] :
              c \in Spaces}
      \cup {[GoodServer({}, T, c) EXCEPT !.keypoints.data = RightAngleKeypoints(T),
                                         !.hammer.data = RightAngleHammer(T)] :
              c \in Spaces}
      \cup UNION {{[GoodServer(d, T, "camera") EXCEPT ![n] = f] :
                      d \in DeclaredFiles, f \in Failures(n)} :
                    n \in {"metadata"} \cup RequiredNames \cup OptionalNames}

StartupInit ==
  /\ calls = 0
  /\ fit = NoFit
  /\ StoreStartsAs(startSession([k \in StorageKeys |-> NullObj], "a"))
  /\ app = AppModuleInit
  /\ annot = AnnotModuleInit
  /\ viewer = ViewerModuleInit

\* the page is opened: main() runs against a server
ViewerStart(server) ==
  /\ viewer.responses = NullObj
  /\ \E below \in RoundingsAt(server) : viewer' = viewerMain(viewer, server, below)
  /\ UNCHANGED <<storeVars, last, calls, annot, app, fit>>

StartupNext ==
  \/ \E server \in Servers : ViewerStart(server)
  \/ \E value \in viewer.scrubber.min..viewer.scrubber.max : ViewerScrubberInput(value)
  \/ \E gap \in FrameGaps : ViewerPlayButton(gap)
  \/ \E r \in {"all", "wind", "throw"} : ViewerRangeButton(r)
  \/ ViewerArrowLeft
  \/ ViewerArrowRight
  \/ ViewerHome
  \/ ViewerEnd
  \/ \E gap \in FrameGaps, short \in BOOLEAN : Animate(gap, short)

StartupSpec == StartupInit /\ [][StartupNext]_vars

\* --------------------------------------------- behaviour of the viewer clock
\* The 3D viewer with a recording of 25 or of 30 frames a second, at every
\* speed.
Speedsx2 == {1, 2, 4}

ClockInit ==
  /\ calls = 0
  /\ fit = NoFit
  /\ StoreStartsAs(startSession([k \in StorageKeys |-> NullObj], "a"))
  /\ app = AppModuleInit
  /\ annot = AnnotModuleInit
  /\ \E fps \in RecordingFps :
     viewer \in Opened(RecordingServer(PlayerMetadata(NumFrames, "camera", 1, fps),
                                       KeypointsData(NumFrames, 1),
                                       PlayerHammerData(NumFrames)))

ClockSpeedButton(gap, speedx2) == ClockStep(viewerSpeedButton(viewer, speedx2), gap)

ClockRangeButton(gap, r) ==
  ClockStep(viewerApplyTimelineRange([viewer EXCEPT !.activeRangePreset = r]), gap)

ClockNext ==
  \/ \E gap \in TickGaps : ViewerPlayButton(gap)
  \/ \E gap \in TickGaps, speedx2 \in Speedsx2 : ClockSpeedButton(gap, speedx2)
  \/ \E gap \in TickGaps, r \in {"all", "throw"} : ClockRangeButton(gap, r)
  \/ \E gap \in TickGaps, short \in BOOLEAN : Animate(gap, short)

ClockSpec == ClockInit /\ [][ClockNext]_vars

\* ------------------------------------- behaviour of the orbit-extremes layer
\* The 3D viewer with a recording of MaxHammerFrame + 2 frames whose hammer
\* is valid at every frame but the last, and any two or three turn boundaries;
\* the user toggles the layer, plays, scrubs, steps and changes the range.
LayerFrames == MaxHammerFrame + 2

LayerHammerData ==
  Flatten([i \in 1..LayerFrames |->
             IF i = LayerFrames THEN <<0, 0, 0>> ELSE <<1, ((i * 3) % 5) + 1, 1>>])

LayerInit ==
  /\ calls = 0
  /\ fit = NoFit
  /\ StoreStartsAs(startSession([k \in StorageKeys |-> NullObj], "a"))
  /\ app = AppModuleInit
  /\ annot = AnnotModuleInit
  /\ \E boundaries \in {b \in AscendingLists(LayerFrames - 1) : Len(b) >= 2},
        active \in BOOLEAN, start \in {0, 2} :
       \E opened \in Opened(RecordingServer(
                               [frame_count |-> LayerFrames,
                                coord_space |-> "world", fps |-> 25,
                                turn_boundaries |-> boundaries,
                                throw_window |-> [start |-> start, release |-> 0]],
                               KeypointsData(LayerFrames, 1), LayerHammerData)) :
         viewer = [opened EXCEPT !.maxminActive = active]

ViewerToggleMaxmin == ViewerStep(viewerToggleMaxmin(viewer))

LayerNext ==
  \/ ViewerToggleMaxmin
  \/ \E value \in viewer.scrubber.min..viewer.scrubber.max : ViewerScrubberInput(value)
  \/ \E gap \in FrameGaps : ViewerPlayButton(gap)
  \/ \E r \in {"all", "throw"} : ViewerRangeButton(r)
  \/ ViewerArrowLeft
  \/ ViewerArrowRight
  \/ ViewerHome
  \/ ViewerEnd
  \/ \E gap \in FrameGaps, short \in BOOLEAN : Animate(gap, short)

LayerSpec == LayerInit /\ [][LayerNext]_vars

\* ------------------------------------------- behaviour of the conic fit
\* fitEllipse is called once on 3 to 5 points out of the corners and the
\* centre of a square of 16 pixels, or on three clicks of SubPixelClicks.
ConicPixels == {[x |-> 0, y |-> 0], [x |-> 16, y |-> 0], [x |-> 16, y |-> 16],
                [x |-> 0, y |-> 16], [x |-> 8, y |-> 8]}

ConicInit ==
  /\ calls = 0
  /\ StoreStartsAs(startSession([k \in StorageKeys |-> NullObj], "a"))
  /\ app = AppModuleInit
  /\ annot = AnnotModuleInit
  /\ viewer = ViewerModuleInit
  /\ \/ \E n \in 3..5 : \E points \in [1..n -> ConicPixels] :
          fit = [points |-> points, rounded |-> NullObj, result |-> UndefinedObj]
     \/ \E clicks \in SubPixelClicks :
          fit = [points |-> clicks.points, rounded |-> clicks.rounded,
                 result |-> UndefinedObj]

\* fitEllipse(points) is called, the conic fit computing numerics
ConicFit ==
  /\ fit.result = UndefinedObj
  /\ \E numerics \in ConicNumerics :
       LET n == [numerics EXCEPT !.circle = fit.rounded]
       IN  fit' = [fit EXCEPT !.result = fitEllipse(fit.points, n)]
                    @@ [numerics |-> n]
  /\ UNCHANGED <<storeVars, last, calls, annot, viewer, app>>

ConicNext == ConicFit

ConicSpec == ConicInit /\ [][ConicNext]_vars

\* ------------------------------------------- behaviour of the circle mode
\* The annotation tool in circle mode: the Place, Define, Accept, Reset and
\* Undo buttons and the pointer on the canvas.  The program goes on for ever;
\* the model follows a run up to MaxGestures steps that change the ellipse or
\* the undo stack.
MaxGestures == 2

\* the points the user clicks in define mode lie on the ellipse of centre
\* (15, 20) with semi-axes 15 and 20; the first three of them lie on the
\* circle of centre (15, 27) and radius 13 as well
Ring ==
  <<[x |-> 27, y |-> 32], [x |-> 3, y |-> 32], [x |-> 15, y |-> 40],
    [x |-> 30, y |-> 20], [x |-> 15, y |-> 0]>>

\* what the conic fit computes for five clicked points: the ellipse of Ring
\* for its five points, a zero pivot where a point is repeated
RingNumerics(points) ==
  IF Len(points) = 5 /\ \A i, j \in 1..5 : i # j => points[i] # points[j]
    THEN [negligible |-> FALSE, disc |-> -1, cx |-> 15, cy |-> 20, rotation |-> 0,
          a2 |-> 15 * 15, b2 |-> 20 * 20, circle |-> NullObj]
    ELSE [negligible |-> TRUE, disc |-> 0, cx |-> 0, cy |-> 0, rotation |-> 0,
          a2 |-> 0, b2 |-> 0, circle |-> NullObj]

\* the fit of the points is none, or has a whole-numbered centre and axes:
\* the points are the five of Ring, or all among the three on the circle
WholeFit(points) ==
  \/ points = Ring
  \/ \A i \in 1..Len(points) : points[i] \in {Ring[1], Ring[2], Ring[3]}

\* where the user clicks in define mode: on the next point of Ring, or once
\* more where the last click was
DefineClicks ==
  LET n == Len(annot.definePoints)
  IN  {Ring[n + 1]} \cup (IF n > 0 THEN {annot.definePoints[n]} ELSE {})

\* where the user places a circle
PlacePoint == [x |-> 40, y |-> 60]

\* a point given in the frame of ellipse e, on the canvas
fromEllipseLocal(lx, ly, e) ==
  [x |-> e.cx + lx * QCos(e.rotation) - ly * QSin(e.rotation),
   y |-> e.cy + lx * QSin(e.rotation) + ly * QCos(e.rotation)]

\* where the user presses the pointer on a circle: its centre, the handle at
\* 0 and at 90 degrees, the rotate handle and the 0-degree label, and a
\* point at the very threshold from the handle at 0 degrees, from the rotate
\* handle and from the 0-degree label
AimPoints ==
  LET e == circleEllipse
      base == IF circleZeroDegAngle = Null THEN 0 ELSE circleZeroDegAngle
      aims == {fromEllipseLocal(0, 0, e), fromEllipseLocal(e.major, 0, e),
               fromEllipseLocal(0, e.minor, e), fromEllipseLocal(0, -(e.minor + 25), e),
               fromEllipseLocal(e.major * QCos(base), e.minor * QSin(base), e),
               fromEllipseLocal(e.major + 22, 0, e),
               fromEllipseLocal(22, -(e.minor + 25), e),
               fromEllipseLocal(e.major * QCos(base) + 36, e.minor * QSin(base), e)}
  IN  {p \in aims : p.x \in 0..CanvasWidth /\ p.y \in 0..CanvasHeight}

\* where the user drags the pointer to: right of the centre or above it
DragTargets ==
  LET e == circleEllipse
  IN  IF e = NullObj THEN {PlacePoint}
      ELSE {[x |-> e.cx + 30, y |-> e.cy], [x |-> e.cx + 5, y |-> e.cy],
            [x |-> e.cx, y |-> e.cy - 30]}

\* what the doubles can make of the hit tests of one pointer press
EdgeOutcomes == [pick : -1..8, inside : BOOLEAN]

\* what the doubles can make of the hit tests of a press at p: any of the
\* outcomes where a comparison at p is on an edge, and the one outcome that
\* lets nothing hit where none is
EdgesAt(p) ==
  LET e == circleEllipse
      l == toEllipseLocal(p.x, p.y, e)
  IN  IF /\ e # NullObj
         /\ \/ nearRotateHandle(l, e) = "edge"
            \/ \E i \in 0..7 : nearHandle(i, l, e) = "edge"
            \/ withinOutline(l, e) = "edge"
            \/ \E i \in 0..3 :
                 nearDegreeLabel(i, circleZeroDegAngle, p.x, p.y, e) = "edge"
        THEN EdgeOutcomes
        ELSE {[pick |-> -1, inside |-> FALSE]}

\* where the user presses the pointer; the fit the 5th click of define mode
\* makes is a whole-numbered one
PressPoints ==
  IF annot.activeMode # "circle" THEN {PlacePoint}
  ELSE IF annot.definingCircle /\ Len(annot.definePoints) < 5
    THEN {p \in DefineClicks :
            Len(annot.definePoints) = 4 => WholeFit(Append(annot.definePoints, p))}
  ELSE IF circleEllipse = NullObj THEN {PlacePoint}
  ELSE AimPoints

CircleInit ==
  /\ calls = 0
  /\ fit = NoFit
  /\ viewer = ViewerModuleInit
  /\ app = AppModuleInit
  /\ \E writable \in BOOLEAN, disabled \in BOOLEAN :
       LET s == startSession([k \in StorageKeys |-> NullObj], "a")
           a == annotMain(s, 60, NumFrames, NullObj)
       IN  /\ StoreStartsAs(s)
           /\ annot = [a EXCEPT !.namespaceWritable = writable,
                                !.acceptDisabled = disabled]

\* a handler of the annotation tool that changes something: r is the tool
\* and the store after it; the model follows a run up to MaxGestures handlers
\* that add to the undo stack or change the ellipse, and any undo of them
CircleStep(r, op) ==
  LET changed == /\ op # "undo"
                 /\ r.s.undoStack # undoStack \/ r.s.circleEllipse # circleEllipse
  IN  /\ r.a # annot \/ r.s # Store
      /\ changed => calls < MaxGestures
      /\ calls' = IF changed THEN calls + 1 ELSE calls
      /\ Commit(r.s, op, annot.currentFrame)
      /\ annot' = r.a
      /\ UNCHANGED <<viewer, app, fit>>

\* the drag to p leaves whole numbers in the ellipse: a diagonal handle is
\* dragged to where both axes take their least value 10, a handle is dragged
\* on an ellipse that is not rotated, and the rotate handle and the label are
\* dragged along the axes through the centre
WholeDrag(p) ==
  LET e == circleEllipse
      l == toEllipseLocal(p.x, p.y, e)
  IN  IF e = NullObj \/ annot.dragging.type = "move" THEN TRUE
      ELSE IF annot.dragging.type = "handle"
        THEN /\ e.rotation = 0
             /\ annot.handleIndex % 2 = 1
                  => 2 * l.lx * l.lx <= 10 * 10 /\ 2 * l.ly * l.ly <= 10 * 10
      ELSE p.x = e.cx \/ p.y = e.cy

PointerDown(p, edge) ==
  /\ CircleStep(onPointerDown(annot, Store, p.x, p.y,
                              RingNumerics(Append(annot.definePoints, p)), edge),
                "onPointerDown")

PointerMove(p, buttons) ==
  /\ annot.dragging # NullObj
  /\ WholeDrag(p)
  /\ CircleStep(onPointerMove(annot, Store, p.x, p.y, buttons, annot.namespaceWritable),
                "onPointerMove")

PointerUp ==
  /\ annot.dragging # NullObj
  /\ CircleStep(onPointerUp(annot, Store, annot.namespaceWritable, TRUE),
                "onPointerUp")

\* The click listeners of the buttons test no mode: switchMode only moves the
\* class 'active' from one toolbar to another, and a click on a button
\* reaches its listener whatever the active mode is.
PlaceButton == CircleStep(placeButton(annot, Store), "placeButton")
DefineButton == CircleStep(defineButton(annot, Store), "defineButton")
AcceptButton ==
  /\ ~annot.acceptDisabled
  /\ WholeFit(annot.definePoints)
  /\ CircleStep(acceptButton(annot, Store, RingNumerics(annot.definePoints), TRUE),
                "acceptButton")
ResetButton == CircleStep(resetButton(annot, Store), "resetButton")
CircleUndo ==
  CircleStep([a |-> refreshTagUI(annot, undo(Store)), s |-> undo(Store)], "undo")
MarkBallButton ==
  CircleStep([a |-> markBallButton(annot), s |-> Store], "markBallButton")
SwitchMode(mode) ==
  CircleStep([a |-> switchMode(annot, mode), s |-> Store], "switchMode")

CircleNext ==
  \/ \E p \in PressPoints : \E edge \in EdgesAt(p) : PointerDown(p, edge)
  \/ \E p \in DragTargets, buttons \in {Undefined, 0} :
       PointerMove(p, buttons)
  \/ PointerUp
  \/ PlaceButton
  \/ DefineButton
  \/ AcceptButton
  \/ ResetButton
  \/ CircleUndo
  \/ MarkBallButton
  \/ \E mode \in {"circle", "tags", "ball"} : SwitchMode(mode)

CircleSpec == CircleInit /\ [][CircleNext]_vars

\* ------------------------------------------- behaviour of the pose metrics
\* The 3D viewer on recordings of two frames whose hips and shoulders stand
\* on a few spots, coincident ones among them; all other keypoints are at
\* the origin.  With a shoulder at (-9, 2, 3) and the hammer at (1, 1, 3) the
\* torso can stand at a right angle to the direction of the hammer.
JointSpots == {<<0, 0, 0>>, <<-1, 0, -1>>, <<1, 2, 1>>, <<-1, 2, -1>>, <<-9, 2, 3>>}

\* keypoints.bin: at frame 0 the joints stand at the spots given, at frame 1
\* all of them are at the origin
PoseKeypoints(spots) ==
  [length |-> 2 * 70 * 3,
   cycle |-> [i \in 1..(2 * 70 * 3) |->
                LET idx == (i - 1) \div 3
                    c == ((i - 1) % 3) + 1
                IN  IF idx \in DOMAIN spots THEN spots[idx][c] ELSE 0]]

PoseInit ==
  /\ calls = 0
  /\ fit = NoFit
  /\ StoreStartsAs(startSession([k \in StorageKeys |-> NullObj], "a"))
  /\ app = AppModuleInit
  /\ annot = AnnotModuleInit
  /\ \E spots \in [{KP_LEFT_SHOULDER, KP_RIGHT_SHOULDER, KP_LEFT_HIP, KP_RIGHT_HIP}
                      -> JointSpots],
        coord_space \in {"world", "camera"},
        hammer \in {<<0, 0, 0, 0, 0, 0>>, <<3, 1, -2, 3, 1, -2>>,
                    <<1, 1, 3, 1, 1, 3>>} :
       viewer = loadData(ViewerModuleInit,
                         RecordingServer(PlayerMetadata(2, coord_space, 0, 25),
                                         PoseKeypoints(spots), hammer)).v

PoseNext ==
  \/ ViewerMain
  \/ \E value \in viewer.scrubber.min..viewer.scrubber.max : ViewerScrubberInput(value)

PoseSpec == PoseInit /\ [][PoseNext]_vars

\* ------------------------------------- behaviour of the tagger app's marking
\* the 'click' listener of the tagger app's canvas (tagger-app.js 214-236),
\* with the click already converted to video pixel coordinates (x, y)
canvasClick(s, frame, x, y) ==
  IF ~s.ballMode /\ ~s.circleZeroMode THEN s
  ELSE IF s.ballMode THEN addBall(s, frame, x, y)
  ELSE toggleCircleZeroMode(setCircleZeroPoint(s, x, y))

ModeInit ==
  /\ calls = 0
  /\ fit = NoFit
  /\ viewer = ViewerModuleInit
  /\ annot = AnnotModuleInit
  /\ app = appMain(NumFrames, NullObj)
  /\ StoreStartsAs(startSession([k \in StorageKeys |-> NullObj], "a"))

\* a handler of the tagger app that calls the tag store; the model follows a
\* run up to MaxCalls handlers that change the annotation record
ModeStep(s, op) ==
  /\ app.videoReady
  /\ IF Record(s) # Record(Store) \/ s.undoStack # undoStack
       THEN calls < MaxCalls /\ calls' = calls + 1
       ELSE calls' = calls
  /\ Commit(s, op, app.currentFrame)
  /\ UNCHANGED toolVars

BallButton == ModeStep(toggleBallMode(Store), "toggleBallMode")
Deg0Button == ModeStep(toggleCircleZeroMode(Store), "toggleCircleZeroMode")
CanvasClick(x, y) == ModeStep(canvasClick(Store, app.currentFrame, x, y), "canvasClick")
ModeUndo == ModeStep(undo(Store), "undo")

ModeNext ==
  \/ BallButton
  \/ Deg0Button
  \/ \E p \in Points : CanvasClick(p.x, p.y)
  \/ ModeUndo
  \/ AppStepBack
  \/ AppStepFwd

ModeSpec == ModeInit /\ [][ModeNext]_vars

\* ================================================================== claims
Rec == Record(Store)

\* strictly ascending: sorted and without a repeated frame
StrictlyAscending(a) == \A i \in 1..(Len(a) - 1) : a[i] < a[i + 1]
AscendingByFrame(a) == \A i \in 1..(Len(a) - 1) : a[i].frame < a[i + 1].frame

\* the top of the undo stack
Top == undoStack[Len(undoStack)]

\* C1: addTurn(f) with f equal to the current throwStart, or with f already in
\* turnBoundaries, returns null and leaves turnBoundaries, every other tag
\* field, the undo stack and the dirty flag unchanged.
C1_AddTurnRejected ==
  [][(last'.op = "addTurn"
        /\ (last'.frame = throwStart \/ includes(turnBoundaries, last'.frame)))
      => (last'.ret = NullRet /\ UNCHANGED <<tagFields, undoStack, dirty>>)]_vars

\* addTurn(T0) has just been refused, on a frame that is no turn boundary
C1_Witness ==
  /\ last.op = "addTurn"
  /\ last.ret = NullRet
  /\ last.frame = throwStart
  /\ ~includes(turnBoundaries, last.frame)

\* C2: no frame is in both ssBoundaries and dsBoundaries; addSS(f) followed
\* by addDS(f) leaves f in dsBoundaries and not in ssBoundaries; adding a
\* frame already in the target set changes nothing and returns null.
C2_SupportExclusive ==
  /\ \A f \in Frames : ~(includes(ssBoundaries, f) /\ includes(dsBoundaries, f))
  /\ \A f \in Frames :
       LET s2 == addDS(addSS(Store, f), f)
       IN  includes(s2.dsBoundaries, f) /\ ~includes(s2.ssBoundaries, f)
  /\ \A f \in Frames :
       /\ includes(ssBoundaries, f) => addSS(Store, f) = [Store EXCEPT !.ret = NullRet]
       /\ includes(dsBoundaries, f) => addDS(Store, f) = [Store EXCEPT !.ret = NullRet]

\* addDS(f) has just been called right after addSS(f)
C2_Witness ==
  /\ Len(undoStack) >= 2
  /\ last.op = "addDS"
  /\ Top = [type |-> "ds_add", frame |-> last.frame]
  /\ undoStack[Len(undoStack) - 1] = [type |-> "ss_add", frame |-> last.frame]
  /\ includes(dsBoundaries, last.frame)
  /\ ~includes(ssBoundaries, last.frame)

\* C3: for every reachable state and every tag operation that succeeds,
\* calling undo() immediately afterwards restores every field of the
\* annotation record to its value before the operation.
UndoRestores(s1) == s1.ret # NullRet => Record(undo(s1)) = Rec

C3_UndoRestoresEveryOperation ==
  /\ \A f \in Frames :
       /\ UndoRestores(setT0(Store, f))
       /\ UndoRestores(setRelease(Store, f))
       /\ UndoRestores(addTurn(Store, f))
       /\ UndoRestores(addSS(Store, f))
       /\ UndoRestores(addDS(Store, f))
       /\ UndoRestores(deleteAtFrame(Store, f))
       /\ \A p \in Points : UndoRestores(addBall(Store, f, p.x, p.y))
  /\ \A p \in Points : UndoRestores(setCircleZeroPoint(Store, p.x, p.y))
  /\ \A e \in Ellipses \cup {NullObj} : UndoRestores(setCircleEllipse(Store, e))
  /\ \A a \in Angles \cup {Null} : UndoRestores(setCircleZeroDegAngle(Store, a))

\* C4: deleteAtFrame(f) followed immediately by undo() restores exactly the
\* tags that were at frame f, keeps every set-valued field sorted ascending
\* and changes no tag at any other frame.
C4_DeleteUndoRestores ==
  \A f \in Frames :
    LET d == deleteAtFrame(Store, f)
        u == undo(d)
    IN  d.ret # NullRet =>
          /\ Record(u) = Rec
          /\ StrictlyAscending(u.turnBoundaries)
          /\ StrictlyAscending(u.ssBoundaries)
          /\ StrictlyAscending(u.dsBoundaries)
          /\ AscendingByFrame(u.ballMarkers)

\* a delete has just been undone: nothing is left to undo, and both the
\* first and the last frame carry a turn boundary and a ball marker again
C4_Witness ==
  /\ last.op = "undo"
  /\ last.ret = "Undo: Delete"
  /\ calls = 2
  /\ undoStack = <<>>
  /\ Len(turnBoundaries) >= 2
  /\ Len(ballMarkers) >= 2
  /\ release # Null
  /\ \A f \in {0, release} :
       includes(turnBoundaries, f) /\ getBallAt(Store, f) # NullObj

\* C5: deleteAtFrame(f) removes f from every tag field in which it is
\* present, in one step, and pushes exactly one undo action; when no tag is
\* present at f it returns null and leaves the record, the undo stack and the
\* dirty flag unchanged.
C5_DeleteAtFrame ==
  [][last'.op = "deleteAtFrame" =>
       LET f == last'.frame
           at == tagsAtFrame(Store, f)
           present == at.isT0 \/ at.isRelease \/ at.isTurn \/ at.isSS
                        \/ at.isDS \/ at.isBall
       IN  IF present
             THEN /\ last'.ret # NullRet
                  /\ throwStart' = (IF throwStart = f THEN Null ELSE throwStart)
                  /\ release' = (IF release = f THEN Null ELSE release)
                  /\ turnBoundaries' = filterNe(turnBoundaries, f)
                  /\ ssBoundaries' = filterNe(ssBoundaries, f)
                  /\ dsBoundaries' = filterNe(dsBoundaries, f)
                  /\ ballMarkers' = SelectSeq(ballMarkers, LAMBDA m : m.frame # f)
                  /\ UNCHANGED <<circleDegZero, circleEllipse, circleZeroDegAngle>>
                  /\ Len(undoStack') = Len(undoStack) + 1
                  /\ SubSeq(undoStack', 1, Len(undoStack)) = undoStack
                  /\ undoStack'[Len(undoStack')].type = "delete"
                  /\ dirty'
             ELSE /\ last'.ret = NullRet
                  /\ UNCHANGED <<tagFields, undoStack, dirty>>]_vars

\* one deleteAtFrame has just removed a release, a turn boundary and a ball
\* marker together
C5_Witness ==
  /\ last.op = "deleteAtFrame"
  /\ last.ret # NullRet
  /\ Top.type = "delete"
  /\ Top.frame = last.frame
  /\ Top.tags.release = last.frame
  /\ Top.tags.turn
  /\ Top.tags.ball # UndefinedObj
  /\ release = Null
  /\ ~includes(turnBoundaries, last.frame)
  /\ getBallAt(Store, last.frame) = NullObj

SaveErrors ==
  {"error: Set T0 first", "error: Set Release first",
   "error: Release must be after T0", "error: setItem failed"}

\* C6: save() returns a failure result whenever throwStart is unset, release
\* is unset, or release <= throwStart, and then changes neither the record,
\* the dirty flag, the undo stack nor the persisted document.
C6_SaveRejected ==
  [][(last'.op = "save"
        /\ (throwStart = Null \/ release = Null \/ release <= throwStart))
      => (/\ last'.ret \in SaveErrors
          /\ last'.ret # "error: setItem failed"
          /\ UNCHANGED <<tagFields, dirty, undoStack, localStorage>>)]_vars

\* save() has just been refused with release equal to throwStart
C6_Witness ==
  /\ last.op = "save"
  /\ last.ret = "error: Release must be after T0"
  /\ throwStart # Null
  /\ release = throwStart

\* the stored document d holds the fields of the current record
DocumentHoldsRecord(d) ==
  /\ d.throw_start = JNum(throwStart)
  /\ d.release = JNum(release)
  /\ d.turn_boundaries = JArr(turnBoundaries)
  /\ d.ss_boundaries = JArr(ssBoundaries)
  /\ d.ds_boundaries = JArr(dsBoundaries)
  /\ Len(d.ball_markers.items) = Len(ballMarkers)
  /\ \A i \in 1..Len(ballMarkers) :
       d.ball_markers.items[i]
         = <<ballMarkers[i].frame, ballMarkers[i].x, ballMarkers[i].y>>
  /\ IF circleEllipse = NullObj THEN d.circle_ellipse = JNull
     ELSE d.circle_ellipse.items
            = <<circleEllipse.cx, circleEllipse.cy, circleEllipse.major,
                circleEllipse.minor, circleEllipse.rotation>>
  /\ IF circleZeroDegAngle = Null THEN d.circle_zero_deg_angle = JNull
     ELSE d.circle_zero_deg_angle = JNum(circleZeroDegAngle)

\* C7: when throwStart and release are set with release > throwStart and the
\* storage write succeeds, save() returns ok, stores under the key built from
\* the video basename a document whose fields equal the record, sets dirty to
\* false and leaves the record and the undo stack unchanged.
C7_SaveStores ==
  [][(last'.op = "save"
        /\ throwStart # Null /\ release # Null /\ release > throwStart
        /\ last'.ret # "error: setItem failed")
      => (/\ last'.ret = "ok"
          /\ DocumentHoldsRecord(localStorage'["throwsage_baseline_" \o _basename])
          /\ \A k \in DOMAIN localStorage :
               k # "throwsage_baseline_" \o _basename
                 => localStorage'[k] = localStorage[k]
          /\ dirty' = FALSE
          /\ UNCHANGED <<tagFields, undoStack>>)]_vars

\* an edited record has just been saved
C7_Witness ==
  /\ last.op = "save"
  /\ last.ret = "ok"
  /\ ~dirty
  /\ Len(undoStack) >= 1
  /\ DocumentHoldsRecord(localStorage[StorageKey(_basename)])
  /\ ballMarkers # <<>>
  /\ circleEllipse # NullObj

\* C8: for every record accepted by save(), a load() in a fresh session with
\* the same video basename yields the saved throwStart, release, boundaries,
\* ball markers and circle fields, returns true and leaves dirty false;
\* load() with nothing stored returns false and changes nothing.
C8_SaveLoadRoundTrip ==
  /\ LET saved == save(Store, TRUE)
         fresh == startSession(saved.localStorage, _basename)
     IN  saved.ret = "ok" =>
           /\ Record(fresh) = Rec
           /\ fresh.ret = "true"
           /\ fresh.dirty = FALSE
  /\ localStorage[StorageKey(_basename)] = NullObj
       => load(Store) = [Store EXCEPT !.ret = "false"]

\* a session has just loaded a document that a save() of this run wrote
C8_Witness ==
  /\ last.op = "load"
  /\ last.ret = "true"
  /\ calls >= 2
  /\ ~dirty
  /\ undoStack = <<>>
  /\ DocumentHoldsRecord(localStorage[StorageKey(_basename)])
  /\ throwStart = 0
  /\ release # Null
  /\ ballMarkers # <<>>
  /\ circleEllipse # NullObj

\* C9: ballMarkers holds at most one marker per frame and is sorted by frame;
\* addBall(f,x,y) on a frame that already has a marker replaces it with (x,y),
\* and the undo() that follows brings back the replaced marker with its
\* original coordinates.
C9_BallMarkers ==
  /\ AscendingByFrame(ballMarkers)
  /\ \A f \in Frames, p \in Points :
       LET added == addBall(Store, f, p.x, p.y)
       IN  /\ getBallAt(added, f) = [frame |-> f, x |-> p.x, y |-> p.y]
           /\ Cardinality({i \in 1..Len(added.ballMarkers) :
                             added.ballMarkers[i].frame = f}) = 1
           /\ undo(added).ballMarkers = ballMarkers

\* addBall has just replaced the marker of its frame by a different one
C9_Witness ==
  /\ last.op = "addBall"
  /\ Top.type = "ball_add"
  /\ Top.frame = last.frame
  /\ Top.prev # NullObj
  /\ getBallAt(Store, last.frame) # NullObj
  /\ getBallAt(Store, last.frame) # Top.prev

\* C10: turnBoundaries is strictly ascending (sorted, no frame twice).
C10_TurnBoundariesAscending == StrictlyAscending(turnBoundaries)

\* addTurn has just inserted a frame in front of an existing boundary
C10_Witness ==
  /\ last.op = "addTurn"
  /\ last.ret # NullRet
  /\ Len(turnBoundaries) >= 2
  /\ turnBoundaries[Len(turnBoundaries)] # last.frame
  /\ includes(turnBoundaries, last.frame)

\* the number of turn boundaries g with lo < g <= f
RankAbove(lo, f) ==
  Cardinality({i \in 1..Len(turnBoundaries) :
                 lo < turnBoundaries[i] /\ turnBoundaries[i] <= f})

\* the store with throwStart t0 and turn boundaries b, nothing else changed
WithTurns(t0, b) == [Store EXCEPT !.throwStart = t0, !.turnBoundaries = b]

\* C11: getTurnLabel is a view of the current state: with throwStart set the
\* k-th smallest boundary below throwStart is labelled Wk and the k-th
\* smallest above it Tk (T0=50 and [10,30,70,90] give W1,W2,T1,T2); with
\* throwStart unset the k-th smallest boundary overall is labelled Tk; the
\* label follows throwStart and the boundaries as they change.
C11_TurnLabels ==
  /\ \A i \in 1..Len(turnBoundaries) :
       LET f == turnBoundaries[i]
           label == getTurnLabel(Store, f)
       IN  /\ throwStart = Null => label = "T" \o ToString(RankAbove(-1, f))
           /\ (throwStart # Null /\ f < throwStart)
                 => label = "W" \o ToString(RankAbove(-1, f))
           /\ (throwStart # Null /\ f > throwStart)
                 => label = "T" \o ToString(RankAbove(throwStart, f))
  /\ LET s == WithTurns(50, <<10, 30, 70, 90>>)
     IN  <<getTurnLabel(s, 10), getTurnLabel(s, 30),
           getTurnLabel(s, 70), getTurnLabel(s, 90)>> = <<"W1", "W2", "T1", "T2">>
  /\ LET s == WithTurns(Null, <<10, 30, 70, 90>>)
     IN  <<getTurnLabel(s, 10), getTurnLabel(s, 30),
           getTurnLabel(s, 70), getTurnLabel(s, 90)>> = <<"T1", "T2", "T3", "T4">>
  /\ \A f \in Frames :
       (last.op = "addTurn" /\ last.frame = f /\ last.ret # NullRet)
         => last.ret = getTurnLabel(Store, f) \o " -> frame " \o ToString(f)

\* the boundary just added is the second wind: a boundary lies below it and
\* throwStart above it
C11_Witness ==
  /\ last.op = "addTurn"
  /\ last.ret = "W2 -> frame 1"
  /\ throwStart = 2
  /\ getTurnLabel(Store, 0) = "W1"

\* Math.round(fps): the integer n with n - 1/2 <= fps < n + 1/2
RoundedFps == CHOOSE n \in 0..annot.fpsx2 : 2 * n - 1 <= annot.fpsx2 /\ annot.fpsx2 < 2 * n + 1

\* the metadata names a highpoint frame (a frame number other than 0)
HighpointPresent ==
  /\ annot.metadata # NullObj
  /\ annot.metadata.hammer_highpoint_frame \notin {Undefined, 0}

EndFrame ==
  IF HighpointPresent THEN annot.metadata.hammer_highpoint_frame
  ELSE IF release # Null
    THEN (IF release + RoundedFps < annot.totalFrames - 1
            THEN release + RoundedFps ELSE annot.totalFrames - 1)
  ELSE annot.totalFrames - 1

\* C12: getTimelineRange returns {0, T0} for the wind preset and
\* {T0, endFrame} for the throw preset when T0 is set, and {0, endFrame} for
\* the all preset or whenever T0 is unset; endFrame is the metadata highpoint
\* frame if present, else min(release + round(fps), totalFrames - 1) if
\* release is set, else totalFrames - 1.  (T0=120 with the wind preset gives
\* {0, 120}.)
C12_TimelineRange ==
  /\ LET r == getTimelineRange(annot, Store)
     IN  /\ (annot.activeRange = "wind" /\ throwStart # Null)
               => r = [min |-> 0, max |-> throwStart]
         /\ (annot.activeRange = "throw" /\ throwStart # Null)
               => r = [min |-> throwStart, max |-> EndFrame]
         /\ (annot.activeRange = "all" \/ throwStart = Null)
               => r = [min |-> 0, max |-> EndFrame]
  /\ getTimelineRange([annot EXCEPT !.activeRange = "wind"],
                      [Store EXCEPT !.throwStart = 120]) = [min |-> 0, max |-> 120]

\* the throw preset is active with T0 and release set, no highpoint in the
\* metadata, and release + round(fps) before the last frame
C12_Witness ==
  /\ annot.activeRange = "throw"
  /\ throwStart # Null
  /\ release # Null
  /\ ~HighpointPresent
  /\ release + RoundedFps < annot.totalFrames - 1
  /\ annot.scrubber.min = throwStart
  /\ annot.scrubber.max = release + RoundedFps

\* the cursor lies within the active range
CursorInRange ==
  LET r == getTimelineRange(annot, Store)
  IN  r.min <= annot.currentFrame /\ annot.currentFrame <= r.max

\* C13: after every user action handled while paused (tag operation, undo,
\* delete, preset change, step by +1 or -1, Home/End, marker click, scrub)
\* currentFrame lies within the active range of getTimelineRange.
C13_CursorWithinRange ==
  [][(~annot.playing /\ ~annot'.playing) => CursorInRange']_vars

\* C15: while playing, a render tick at which the video position is at or
\* beyond range.max stops playback (playing false, video paused) and puts the
\* cursor at range.min, however far the video ran since the last tick.
C15_PlaybackStopsAtRangeEnd ==
  LET r == getTimelineRange(annot, Store)
      t == renderLoop(annot, Store)
  IN  (annot.playing /\ annot.videoFrame >= r.max)
        => (~t.playing /\ t.videoPaused /\ t.currentFrame = r.min)

\* C14: in every tool (3D viewer, tagger app, annotation tool) a scrubber
\* input that arrives while the tool is playing leaves the tool paused
\* (playing false) and at the frame the scrubber was set to.
C14_ScrubbingPauses ==
  /\ (viewer.ready /\ viewer.playing) =>
       \A value \in viewer.scrubber.min..viewer.scrubber.max :
         LET t == viewerScrubberInput(viewer, value)
         IN  ~t.playing /\ t.currentFrame = value
  /\ (app.videoReady /\ app.playing) =>
       \A v \in app.scrubber.min..app.scrubber.max :
         LET t == appScrubberInput(app, v)
         IN  ~t.playing /\ t.videoPaused /\ t.currentFrame = v
  /\ (AnnotOpen /\ annot.playing) =>
       \A v \in annot.scrubber.min..annot.scrubber.max :
         LET t == scrubberInput(annot, v)
         IN  ~t.playing /\ t.videoPaused /\ t.currentFrame = v

\* what keypoints.bin holds at offset (f*70 + i)*3 for joint i of frame f: the
\* stored triple, with undefined where the file ends before it
RawTriple(f, i) ==
  [c \in 1..3 |-> kpElem(viewer.keypointsData, (f * 70 + i) * 3 + c - 1)]

\* keypoints.bin holds the triple of joint i of frame f
TripleStored(f, i) == (f * 70 + i) * 3 + 3 <= viewer.keypointsData.length

\* the negative of a coordinate: of a number its negative, of NaN and of
\* undefined NaN
Negated(c) == IF c \in {NaN, UndefinedNumber} THEN NaN ELSE 0 - c

\* (x, -y, -z) for a camera-space dataset, (x, y, z) for a world-space one
Convention(p) ==
  IF viewer.metadata.coord_space = "world" THEN p
  ELSE <<p[1], Negated(p[2]), Negated(p[3])>>

\* C16: for all frames f in [0, T) and joints i in [0, 70), getKp(f, i) is the
\* triple stored at offset (f*70 + i)*3, returned as (x, -y, -z) for a
\* camera-space dataset and unchanged for a world-space one; camToThree
\* applies the same rule; and the coordinate-space flag, set at load from
\* metadata.coord_space, never changes afterwards.
C16_KeypointConvention ==
  /\ [](viewer.ready =>
          /\ viewer.isWorldSpace = (viewer.metadata.coord_space = "world")
          /\ \A f \in 0..(viewer.metadata.frame_count - 1), i \in 0..69 :
               getKp(viewer, f, i) = Convention(RawTriple(f, i))
          /\ \A x \in -1..1, y \in -1..1, z \in -1..1 :
               camToThree(viewer, x, y, z) = Convention(<<x, y, z>>))
  /\ [][viewer.ready => /\ viewer'.isWorldSpace = viewer.isWorldSpace
                        /\ viewer'.metadata = viewer.metadata]_vars

\* the hammer sample of frame f in hammer.bin is valid: its first component is
\* not NaN and it is not the exact zero vector
ValidSample(f) ==
  /\ f \in 0..(viewer.metadata.frame_count - 1)
  /\ f * 3 + 3 <= Len(viewer.hammerData)
  /\ viewer.hammerData[f * 3 + 1] # NaN
  /\ <<viewer.hammerData[f * 3 + 1], viewer.hammerData[f * 3 + 2],
       viewer.hammerData[f * 3 + 3]>> # <<0, 0, 0>>

\* the consecutive pairs of turn boundaries, as indices of the first of a pair
Segments ==
  IF "turn_boundaries" \in DOMAIN viewer.metadata
    THEN 1..(Len(viewer.metadata.turn_boundaries) - 1)
    ELSE {}
SegStart(i) == viewer.metadata.turn_boundaries[i]
SegEnd(i) == viewer.metadata.turn_boundaries[i + 1]

\* the extremes of one type, in the order they are reported
Reported(type) == SelectSeq(viewer.orbitExtremes, LAMBDA e : e.type = type)

\* C17: an invalid hammer sample (first component NaN, or the exact zero
\* vector) is never used: every extremum precomputeOrbitExtremes reports is at
\* a frame with a valid sample, there are as many highs as segments holding a
\* valid sample, without any valid sample in a segment nothing at all is
\* reported, and updateHammerFrame hides the hammer sphere at exactly the
\* invalid frames.
C17_InvalidSamplesUnused ==
  viewer.ready =>
    /\ \A k \in 1..Len(viewer.orbitExtremes) :
         ValidSample(viewer.orbitExtremes[k].frame)
    /\ Len(Reported("high"))
         = Cardinality({i \in Segments :
                          \E f \in SegStart(i)..SegEnd(i) : ValidSample(f)})
    /\ (\A i \in Segments : \A f \in SegStart(i)..SegEnd(i) : ~ValidSample(f))
         => viewer.orbitExtremes = <<>>
    /\ viewer.hammerSphere.visible = ValidSample(viewer.currentFrame)
    /\ \A f \in 0..(viewer.metadata.frame_count - 1) :
         updateHammerFrame(viewer, f).hammerSphere.visible = ValidSample(f)

\* the recording has an invalid frame inside a segment that also holds valid
\* frames; an extremum is reported and the user has scrubbed to the invalid
\* frame, where the sphere is hidden
C17_Witness ==
  /\ viewer.ready
  /\ viewer.metadata.frame_count = MaxHammerFrame + 1
  /\ "turn_boundaries" \in DOMAIN viewer.metadata
  /\ viewer.metadata.turn_boundaries = <<0, 2>>
  /\ ~ValidSample(0) /\ ~ValidSample(1) /\ ValidSample(2)
  /\ viewer.hammerData[4] = NaN
  /\ Len(viewer.orbitExtremes) > 0
  /\ viewer.orbitExtremes[1].frame = 2
  /\ viewer.currentFrame = 1
  /\ ~viewer.hammerSphere.visible

\* the height of the hammer at frame f, in the viewer's coordinates
Height(f) ==
  IF viewer.metadata.coord_space = "world"
    THEN viewer.hammerData[f * 3 + 2]
    ELSE 0 - viewer.hammerData[f * 3 + 2]

\* the segments that hold a valid sample, in ascending order
RECURSIVE ValidSegmentsFrom(_)
ValidSegmentsFrom(i) ==
  IF i \notin Segments THEN <<>>
  ELSE (IF \E f \in SegStart(i)..SegEnd(i) : ValidSample(f) THEN <<i>> ELSE <<>>)
       \o ValidSegmentsFrom(i + 1)

\* the first frame of maximum valid height in the closed segment i
FirstHighest(i) ==
  LET V == {f \in SegStart(i)..SegEnd(i) : ValidSample(f)}
      top == {f \in V : \A g \in V : Height(g) <= Height(f)}
  IN  CHOOSE f \in top : \A g \in top : f <= g

\* a recording of 71 frames whose height has a single peak at frame 25 in
\* [10, 40] and a single peak at frame 55 in [40, 70]
PeakHammerData ==
  Flatten([i \in 1..71 |->
             LET f == i - 1
                 c == IF f <= 40 THEN 25 ELSE 55
             IN  <<1, 30 - (IF f > c THEN f - c ELSE c - f), 1>>])

\* what main() leaves in orbitExtremes for that recording; the extremes are
\* computed from the hammer alone, whatever the rounding of the back tilt
PeakExtremes ==
  viewerMain(ViewerModuleInit,
             RecordingServer([frame_count |-> 71, coord_space |-> "world",
                              turn_boundaries |-> <<10, 40, 70>>],
                             KeypointsData(71, 1), PeakHammerData), {}).orbitExtremes

\* C18: with at least 2 turn boundaries precomputeOrbitExtremes reports at
\* most one high per consecutive pair, namely for each pair holding a valid
\* sample the first frame of maximum valid height in the closed segment, with
\* span b_i+1 - b_i; boundaries [10,40,70] with peaks at frames 25 and 55 give
\* exactly the highs 25 and 55, each with span 30; fewer than 2 boundaries
\* give no extremes at all.
C18_HighsPerSegment ==
  /\ viewer.ready =>
       LET hs == Reported("high")
           segs == ValidSegmentsFrom(1)
       IN  /\ Len(hs) = Len(segs)
           /\ Len(hs) <= Cardinality(Segments)
           /\ \A k \in 1..Len(segs) :
                /\ hs[k].frame = FirstHighest(segs[k])
                /\ hs[k].turnFrameCount = SegEnd(segs[k]) - SegStart(segs[k])
           /\ Segments = {} => viewer.orbitExtremes = <<>>
  /\ LET hs == SelectSeq(PeakExtremes, LAMBDA e : e.type = "high")
     IN  /\ Len(hs) = 2
         /\ hs[1].frame = 25 /\ hs[1].turnFrameCount = 30
         /\ hs[2].frame = 55 /\ hs[2].turnFrameCount = 30

\* three boundaries; each segment has its maximum height twice (frames 0 and
\* 1, frames 1 and 3, with an invalid frame between) and its high is at the
\* first of the two
C18_Witness ==
  /\ viewer.ready
  /\ "turn_boundaries" \in DOMAIN viewer.metadata
  /\ viewer.metadata.turn_boundaries = <<0, 1, 3>>
  /\ viewer.metadata.coord_space = "world"
  /\ ValidSample(0) /\ ValidSample(1) /\ ~ValidSample(2) /\ ValidSample(3)
  /\ Height(0) = 2 /\ Height(1) = 2 /\ Height(3) = 2
  /\ Len(Reported("high")) = 2
  /\ Reported("high")[1].frame = 0
  /\ Reported("high")[2].frame = 1
  /\ viewer.currentFrame = 3

\* the points of a list lie on one line (or coincide)
Collinear(points) ==
  \A i \in 1..Len(points), j \in 1..Len(points), k \in 1..Len(points) :
    (points[j].x - points[i].x) * (points[k].y - points[i].y)
      = (points[k].x - points[i].x) * (points[j].y - points[i].y)

\* C19: fitEllipse returns null for 3 collinear points and for fewer than 3
\* points; whatever it returns otherwise has a finite centre and radius.
C19_DegenerateFitFails ==
  fit.result # UndefinedObj =>
    /\ Len(fit.points) < 3 => fit.result = NullObj
    /\ (Len(fit.points) = 3 /\ Collinear(fit.points)) => fit.result = NullObj
    /\ fit.result # NullObj => (fit.result.den # 0 /\ fit.result.r2Den # 0)

\* C19, on clicks at whole pixels, where the doubles of the circle fit are
\* exact: fitEllipse returns null for 3 collinear points and for fewer than
\* 3 points, and whatever it returns otherwise has a finite centre and radius.
C19_WholePixelFitFails ==
  (fit.result # UndefinedObj /\ fit.rounded = NullObj) =>
    /\ Len(fit.points) < 3 => fit.result = NullObj
    /\ (Len(fit.points) = 3 /\ Collinear(fit.points)) => fit.result = NullObj
    /\ fit.result # NullObj => (fit.result.den # 0 /\ fit.result.r2Den # 0)

\* the document load() reads
StoredDoc == localStorage[StorageKey(_basename)]

\* the frames of support_boundaries whose state code is code, in their order
FramesOfCode(code) ==
  LET sb == StoredDoc.support_boundaries.items
      st == StoredDoc.support_states.items
      idx == {i \in 1..Len(sb) : i <= Len(st) /\ st[i] = code}
  IN  [k \in 1..Cardinality(idx) |->
         sb[CHOOSE i \in idx : Cardinality({j \in idx : j < i}) = k - 1]]

\* C21: load() accepts both legacy encodings.  turn_boundaries, when the
\* document has it, is used as is; otherwise turn_boundaries_all is used
\* without the frames equal to throwStart, or without its first element when
\* throwStart is null.  When support_boundaries and support_states are both
\* there, ssBoundaries and dsBoundaries are the frames of code 1 and of code 2
\* (other codes dropped); otherwise the separate ss_boundaries and
\* ds_boundaries lists are used.
C21_LoadLegacyEncodings ==
  [][(last'.op = "load" /\ last.op = "init") =>
       LET doc == StoredDoc
           Has(k) == k \in DOMAIN doc
           all == doc.turn_boundaries_all.items
       IN  /\ last'.ret = "true"
           /\ turnBoundaries' =
                (IF Has("turn_boundaries") THEN doc.turn_boundaries.items
                 ELSE IF Has("turn_boundaries_all")
                   THEN IF throwStart' # Null
                          THEN SelectSeq(all, LAMBDA f : f # throwStart')
                          ELSE IF all = <<>> THEN <<>> ELSE Tail(all)
                 ELSE turnBoundaries)
           /\ IF Has("support_boundaries") /\ Has("support_states")
                THEN /\ ssBoundaries' = FramesOfCode(1)
                     /\ dsBoundaries' = FramesOfCode(2)
                ELSE /\ ssBoundaries' = (IF Has("ss_boundaries")
                                           THEN doc.ss_boundaries.items
                                           ELSE ssBoundaries)
                     /\ dsBoundaries' = (IF Has("ds_boundaries")
                                           THEN doc.ds_boundaries.items
                                           ELSE dsBoundaries)]_vars

\* a pipeline document was loaded: T0 = 1 was removed from turn_boundaries_all
\* and the combined support list with codes 1, 0, 2 gave one SS and one DS frame
C21_Witness ==
  /\ last.op = "load"
  /\ throwStart = 1
  /\ "turn_boundaries" \notin DOMAIN StoredDoc
  /\ "turn_boundaries_all" \in DOMAIN StoredDoc
  /\ StoredDoc.turn_boundaries_all = JArr(<<0, 1, MaxFrame>>)
  /\ turnBoundaries = <<0, MaxFrame>>
  /\ "support_states" \in DOMAIN StoredDoc
  /\ StoredDoc.support_states = JArr(<<1, 0, 2>>)
  /\ ssBoundaries = <<0>>
  /\ dsBoundaries = <<MaxFrame>>

\* C22: during the load sequence of the 3D viewer a failed fetch of an
\* optional series is not fatal: when the metadata and the four required
\* series are served, the session starts, no error message is shown, the
\* required series are the served ones, and each optional series is the served
\* array or stays null (null when its fetch failed); only a failed fetch of
\* the metadata or of a required series aborts the start-up.
Served(n) == viewer.responses[n].status = "ok"
RequiredServed == Served("metadata") /\ \A n \in RequiredNames : Served(n)
C22_OptionalFailureNotFatal ==
  viewer.responses # NullObj =>
    IF RequiredServed
      THEN /\ viewer.ready
           /\ viewer.loading = "hidden"
           /\ viewer.verticesData = [data |-> viewer.responses.vertices.data]
           /\ viewer.facesData = [data |-> viewer.responses.faces.data]
           /\ viewer.keypointsData = viewer.responses.keypoints.data
           /\ viewer.hammerData = viewer.responses.hammer.data
           /\ \A i \in 1..Len(OptionalFiles) :
                LET o == OptionalFiles[i]
                IN  IF o.file \in viewer.metadata.files /\ Served(o.file)
                      THEN viewer[o.binding] = [data |-> viewer.responses[o.file].data]
                      ELSE viewer[o.binding] = NullObj
      ELSE ~viewer.ready /\ viewer.loading = "error"

\* C23: in the 3D viewer, once main() has run and while the active preset's
\* range has min <= max, playback ticks, arrow-key steps, Home/End and range
\* preset changes keep timelineMin <= currentFrame <= timelineMax; and a step
\* that changes the range to one with min <= max leaves the cursor where it
\* was when it lies in the new range and moves it to the nearest bound of the
\* new range otherwise.
InRange == viewer.timelineMin <= viewer.currentFrame /\ viewer.currentFrame <= viewer.timelineMax
C23_CursorWithinRange ==
  /\ []((viewer.ready /\ viewer.timelineMin <= viewer.timelineMax) => InRange)
  /\ [][(/\ viewer.ready
         /\ <<viewer'.timelineMin, viewer'.timelineMax>>
              # <<viewer.timelineMin, viewer.timelineMax>>
         /\ viewer'.timelineMin <= viewer'.timelineMax)
        => viewer'.currentFrame =
             Max(viewer'.timelineMin, Min(viewer'.timelineMax, viewer.currentFrame))]_vars

\* the 'throw' preset was chosen while the cursor was before the throw start:
\* the cursor sits on the lower bound of the new range, and the viewer plays
C23_Witness ==
  /\ viewer.ready
  /\ viewer.playing
  /\ viewer.activeRangePreset = "throw"
  /\ viewer.timelineMin > 0
  /\ viewer.timelineMin <= viewer.timelineMax
  /\ viewer.currentFrame = viewer.timelineMin

\* a preset whose range is empty (the throw starts after the last valid hammer
\* frame) is active
C23_EmptyRangeActive == viewer.ready /\ viewer.timelineMin > viewer.timelineMax

\* the frame a tick moves the cursor to when it advances
NextFrame ==
  IF viewer.currentFrame + 1 > viewer.timelineMax THEN viewer.timelineMin
  ELSE viewer.currentFrame + 1

\* At least 1000/(fps * playbackSpeed) ms have elapsed at the time now since
\* the time since, an exact fraction <<num, den>> of ms.  The program compares
\* doubles: where exactly one frame duration has elapsed and no double holds
\* that duration, rounding decides, and short tells that the doubles fall
\* short of it.
ElapsedReaches(now, since, short) ==
  LET perTwoSeconds == viewer.metadata.fps * viewer.playbackSpeedx2
      e == (now * since[2] - since[1]) * perTwoSeconds
      threshold == 2000 * since[2]
  IN  \/ e > threshold
      \/ e = threshold /\ (isPowerOfTwo(Fraction(2000, perTwoSeconds)[2]) \/ ~short)

\* what a render tick gap ms after the latest event does, when the frame
\* duration is measured from the time since
TickFollows(gap, since) ==
  \A short \in BOOLEAN :
    LET now == viewer.now + gap
        t == animate(viewer, now, short)
    IN  /\ t.playing = viewer.playing
        /\ t.metadata = viewer.metadata
        /\ t.playbackSpeedx2 = viewer.playbackSpeedx2
        /\ IF viewer.playing /\ ElapsedReaches(now, since, short)
             THEN t.currentFrame = NextFrame
             ELSE t.currentFrame = viewer.currentFrame

\* C24 as stated: while playing, a render tick advances currentFrame by
\* exactly one frame (wrapping from timelineMax to timelineMin, playback going
\* on) when at least 1000/(fps * playbackSpeed) ms have elapsed since the last
\* advance, and leaves it unchanged otherwise; while paused a tick never
\* changes it.
C24_TickSinceLastAdvance ==
  viewer.ready => \A gap \in TickGaps : TickFollows(gap, <<viewer.lastAdvance, 1>>)

\* C24 amended: the frame duration is measured from lastFrameTime, which is
\* the time playback was started or the time of the last advance less the part
\* of the elapsed time that went beyond whole frame durations, so an advance
\* can follow the one before it by less than a frame duration; lastFrameTime
\* is never later than the last advance.
C24_TickSinceLastFrameTime ==
  viewer.ready =>
    /\ \A gap \in TickGaps : TickFollows(gap, viewer.lastFrameTime)
    /\ viewer.playing =>
         /\ viewer.lastFrameTime[1] <= viewer.lastAdvance * viewer.lastFrameTime[2]
         /\ viewer.lastAdvance <= viewer.now

\* a tick has advanced the cursor late, so that lastFrameTime lies before the
\* time of that advance, and the next tick advances again although less than
\* a frame duration has passed since
C24_Witness ==
  /\ viewer.ready
  /\ viewer.playing
  /\ viewer.lastFrameTime[1] < viewer.lastAdvance * viewer.lastFrameTime[2]
  /\ \E gap \in TickGaps :
       /\ ~ElapsedReaches(viewer.now + gap, <<viewer.lastAdvance, 1>>, FALSE)
       /\ \A short \in BOOLEAN :
            animate(viewer, viewer.now + gap, short).currentFrame = NextFrame
       /\ NextFrame # viewer.currentFrame

\* the array the metric series ought to be: the pipeline's when it is there
\* with frame_count elements, else the live values of all frames
SeriesOf(pipeline, live(_)) ==
  IF pipeline # NullObj /\ Len(pipeline.data) = viewer.metadata.frame_count
    THEN pipeline
    ELSE [data |-> [i \in 1..viewer.metadata.frame_count |-> live(i - 1)]]

\* C25: once the viewer has started, each derived metric series (separation,
\* back tilt) is the pipeline-supplied array when that array is present with
\* frame_count elements, and otherwise an array of frame_count elements
\* holding the live value of each frame; before that it is null, and no tick,
\* scrub, step, range change or toggle after the start-up assigns it again.
\* The live back tilt of a frame is the value computeBackTiltAngle returns
\* under the rounding of the doubles.
C25_MetricSeriesAssignedOnce ==
  /\ [](IF viewer.ready
          THEN LET liveSeparation(f) == computeSeparationAngle(viewer, f)
               IN  /\ viewer.separationAngles
                        = SeriesOf(viewer.pipelineSeparation, liveSeparation)
                   /\ \E below \in Roundings(viewer) :
                        LET liveBackTilt(f) ==
                              computeBackTiltAngle(viewer, f, f \in below)
                        IN  viewer.backTiltAngles
                              = SeriesOf(viewer.pipelineBackLean, liveBackTilt)
          ELSE viewer.separationAngles = NullObj /\ viewer.backTiltAngles = NullObj)
  /\ [][viewer.ready => /\ viewer'.separationAngles = viewer.separationAngles
                        /\ viewer'.backTiltAngles = viewer.backTiltAngles]_vars

\* the viewer plays past frame 0; the pipeline's separation array was one
\* element short and its back lean array one element long, and both series
\* hold the live values of the frames
C25_Witness ==
  /\ viewer.ready
  /\ viewer.playing
  /\ viewer.currentFrame > 0
  /\ viewer.pipelineBackLean # NullObj
  /\ Len(viewer.pipelineBackLean.data) = viewer.metadata.frame_count + 1
  /\ Len(viewer.backTiltAngles.data) = viewer.metadata.frame_count
  /\ 1 \notin RoundedFrames(viewer)
  /\ viewer.backTiltAngles.data[2] = computeBackTiltAngle(viewer, 1, FALSE)
  /\ viewer.pipelineSeparation # NullObj
  /\ Len(viewer.pipelineSeparation.data) = viewer.metadata.frame_count - 1
  /\ viewer.separationAngles.data[1] = computeSeparationAngle(viewer, 0)

\* the frames of the reported highs, and the release frame the last gap ends at
HighFrames == [k \in 1..Len(Reported("high")) |-> Reported("high")[k].frame]
Release ==
  IF "throw_window" \in DOMAIN viewer.metadata
       /\ viewer.metadata.throw_window.release # 0
    THEN viewer.metadata.throw_window.release
    ELSE viewer.metadata.frame_count - 1

\* the gaps searched for a low, when there are H >= 1 highs: gap 1 starts half
\* a turn (rounded, halves up) before the first boundary, but not before
\* frame 0; gap H + 1 ends at the release
GapStart(k) ==
  IF k = 1
    THEN LET b == viewer.metadata.turn_boundaries
             start == b[1] - ((b[2] - b[1] + 1) \div 2)
         IN  IF start < 0 THEN 0 ELSE start
    ELSE HighFrames[k - 1]
GapEnd(k) == IF k = Len(HighFrames) + 1 THEN Release ELSE HighFrames[k]

\* the gaps that hold a valid sample, in ascending order
RECURSIVE ValidGapsFrom(_)
ValidGapsFrom(k) ==
  IF k > Len(HighFrames) + 1 THEN <<>>
  ELSE (IF \E f \in GapStart(k)..GapEnd(k) : ValidSample(f) THEN <<k>> ELSE <<>>)
       \o ValidGapsFrom(k + 1)

\* the first frame of minimum valid height in the closed gap k
FirstLowest(k) ==
  LET V == {f \in GapStart(k)..GapEnd(k) : ValidSample(f)}
      bottom == {f \in V : \A g \in V : Height(f) <= Height(g)}
  IN  CHOOSE f \in bottom : \A g \in bottom : f <= g

\* for each gap holding a valid sample the first frame of minimum valid
\* height of the closed gap is reported as a low, with the gap's length as
\* span; nothing is reported for the other gaps and when there is no high
LowsOfGaps ==
  LET ls == Reported("low")
      gaps == IF Len(HighFrames) >= 1 THEN ValidGapsFrom(1) ELSE <<>>
  IN  /\ Len(ls) = Len(gaps)
      /\ Len(ls) <= Len(HighFrames) + 1
      /\ \A k \in 1..Len(gaps) :
           /\ ls[k].frame = FirstLowest(gaps[k])
           /\ ls[k].turnFrameCount = GapEnd(gaps[k]) - GapStart(gaps[k])
      /\ viewer.orbitExtremes = Reported("high") \o ls

\* N >= 2 boundaries with a valid hammer at every frame
ValidEverywhere ==
  /\ Segments # {}
  /\ \A f \in 0..(viewer.metadata.frame_count - 1) : ValidSample(f)

\* N - 1 highs and N lows are reported
FullCounts ==
  /\ Len(HighFrames) = Cardinality(Segments)
  /\ Len(Reported("low")) = Cardinality(Segments) + 1

\* C26 as stated: when precomputeOrbitExtremes finds H >= 1 highs it searches
\* H + 1 gaps for a low: from half a turn before the first boundary (not
\* before frame 0) to the first high, from each high to the next, and from
\* the last high to the release (the last frame when no release is given);
\* each reported low is the first frame of minimum valid height of its closed
\* gap and carries the gap's length as span, so that N boundaries with a
\* valid hammer everywhere give N - 1 highs and N lows.
C26_LowsAsStated ==
  viewer.ready => (LowsOfGaps /\ (ValidEverywhere => FullCounts))

\* C26, what the code does: the lows are those of the H + 1 gaps, and N
\* boundaries with a valid hammer everywhere give N - 1 highs, and N lows
\* when the release is not before the last high; a release before the last
\* high leaves the last gap empty, and then N - 1 lows are reported.
C26_LowsPerGap ==
  viewer.ready =>
    /\ LowsOfGaps
    /\ ValidEverywhere =>
         /\ Len(HighFrames) = Cardinality(Segments)
         /\ IF Release >= HighFrames[Len(HighFrames)]
              THEN Len(Reported("low")) = Cardinality(Segments) + 1
              ELSE Len(Reported("low")) = Cardinality(Segments)

\* round(0.75 * span), halves up
FadeFrames(span) == (3 * span + 2) \div 4

\* the fraction q = <<num, den>> lies in [1/2, 1]
HalfToOne(q) == q[2] > 0 /\ q[2] <= 2 * q[1] /\ q[1] <= q[2]

\* C27: whenever the orbit-extremes layer is shown, each extremum marker is
\* visible exactly when currentFrame is at or past the marker's own frame;
\* the opacity of a visible marker is 1 at its own frame, falls linearly with
\* the frames elapsed since to 1/2 at round(0.75 * span) frames, and is 1/2
\* from there on (and at once when that duration is 0), so it lies in
\* [1/2, 1].
C27_MarkersFade ==
  (viewer.ready /\ viewer.orbitExtremesGroup.visible) =>
    \A k \in 1..Len(viewer.orbitExtremes) :
      LET e == viewer.orbitExtremes[k]
          elapsed == viewer.currentFrame - e.frame
          D == FadeFrames(e.turnFrameCount)
          q == e.sphere.opacity
      IN  /\ e.sphere.visible = (viewer.currentFrame >= e.frame)
          /\ e.sphere.visible =>
               /\ HalfToOne(q)
               /\ IF D = 0 \/ elapsed >= D
                    THEN 2 * q[1] = q[2]
                    ELSE q[1] * 2 * D = q[2] * (2 * D - elapsed)
               /\ (elapsed = 0 /\ D > 0) => q[1] = q[2]

\* boundaries 0 and 4 give a high at frame 2 with span 4 and lows at frames 1
\* and 3 with span 2; the layer is shown and the viewer plays at frame 2,
\* where the high has opacity 1, the low of frame 1 has opacity 3/4 and the
\* low of frame 3 is not visible
C27_Witness ==
  /\ viewer.ready
  /\ viewer.playing
  /\ viewer.orbitExtremesGroup.visible
  /\ viewer.currentFrame = 2
  /\ Len(viewer.orbitExtremes) = 3
  /\ [k \in 1..3 |-> viewer.orbitExtremes[k].frame] = <<2, 1, 3>>
  /\ [k \in 1..3 |-> viewer.orbitExtremes[k].turnFrameCount] = <<4, 2, 2>>
  /\ viewer.orbitExtremes[1].sphere = [visible |-> TRUE, opacity |-> <<1, 1>>]
  /\ viewer.orbitExtremes[2].sphere = [visible |-> TRUE, opacity |-> <<3, 4>>]
  /\ ~viewer.orbitExtremes[3].sphere.visible

\* the conic fit rejects what its computations gave: a negligible pivot, a
\* discriminant >= 0, a squared semi-axis that is not positive, or a major
\* semi-axis below 10 or above the canvas width
Rejected(numerics) ==
  \/ numerics.negligible
  \/ numerics.disc >= 0
  \/ numerics.a2 <= 0
  \/ numerics.b2 <= 0
  \/ \A m \in {numerics.a2, numerics.b2} : m < 10 * 10
  \/ \E m \in {numerics.a2, numerics.b2} : m > CanvasWidth * CanvasWidth

\* the result of a fit is a circle: it has one radius, which is both major and
\* minor
IsCircle(result) == "r2Num" \in DOMAIN result

\* C28: fitEllipse gives the result of the circle fit for 3 or 4 points, and
\* for 5 points the result of the conic fit, which is that of the circle fit
\* whenever the conic fit rejects (negligible pivot, discriminant >= 0,
\* non-positive squared semi-axis, major out of bounds); every descriptor it
\* returns has 10 <= major <= canvas width and minor <= major, and a circle
\* result has major = minor = radius and rotation 0.
C28_FitDispatchAndBounds ==
  fit.result # UndefinedObj =>
    /\ Len(fit.points) \in {3, 4}
         => fit.result = fitCircleAsEllipse(fit.points, fit.numerics.circle)
    /\ Len(fit.points) = 5 =>
         IF Rejected(fit.numerics)
           THEN fit.result = fitCircleAsEllipse(fit.points, fit.numerics.circle)
           ELSE /\ ~IsCircle(fit.result)
                /\ {fit.result.major * fit.result.major,
                    fit.result.minor * fit.result.minor}
                     = {fit.numerics.a2, fit.numerics.b2}
                /\ fit.result.cx = fit.numerics.cx /\ fit.result.cy = fit.numerics.cy
                /\ fit.result.rotation - fit.numerics.rotation
                     = (IF fit.numerics.b2 > fit.numerics.a2 THEN 90 ELSE 0)
    /\ fit.result # NullObj =>
         IF IsCircle(fit.result)
           THEN /\ fit.result.r2Den > 0
                /\ 100 * fit.result.r2Den <= fit.result.r2Num
                /\ fit.result.r2Num <= CanvasWidth * CanvasWidth * fit.result.r2Den
                /\ fit.result.rotation = 0
           ELSE /\ 10 <= fit.result.major
                /\ fit.result.major <= CanvasWidth
                /\ 0 < fit.result.minor
                /\ fit.result.minor <= fit.result.major

\* five points, the four corners of the square among them; the conic fit
\* found semi-axes 12 and 641, the major above the canvas width, and the
\* result is the circle through the corners, of radius squared 128
C28_Witness ==
  /\ Len(fit.points) = 5
  /\ {fit.points[i] : i \in 1..4} = ConicPixels \ {[x |-> 8, y |-> 8]}
  /\ fit.points[5] = [x |-> 0, y |-> 0]
  /\ fit.result # UndefinedObj
  /\ fit.numerics.a2 = 144
  /\ fit.numerics.b2 = (CanvasWidth + 1) * (CanvasWidth + 1)
  /\ IsCircle(fit.result)
  /\ fit.result.r2Num = 128 * fit.result.r2Den

\* ---- C29, C30: the circle mode of the annotation tool
\* the store after n calls of undo()
RECURSIVE UndoTimes(_, _)
UndoTimes(s, n) == IF n = 0 THEN s ELSE UndoTimes(undo(s), n - 1)

\* the 5th click of define mode at p, which fits the clicked points
FifthClick(p) ==
  onPointerDown(annot, Store, p.x, p.y, RingNumerics(Append(annot.definePoints, p)),
                [pick |-> -1, inside |-> FALSE])

\* a click on the Accept button
AcceptClick ==
  acceptButton(annot, Store, RingNumerics(annot.definePoints), TRUE)

\* C29: in circle mode the list of clicked define points never holds more
\* than 5 points, and it is empty after every fit attempt, successful or
\* failed: after the automatic fit on the 5th click, and after a fit
\* triggered by the Accept button, definePoints has length 0.
C29_DefinePointsEmptyAfterFit ==
  /\ Len(annot.definePoints) <= 5
  /\ annot.definingCircle /\ Len(annot.definePoints) = 4
       => \A p \in PressPoints : FifthClick(p).a.definePoints = <<>>
  /\ ~annot.acceptDisabled /\ Len(annot.definePoints) >= 3 /\ WholeFit(annot.definePoints)
       => AcceptClick.a.definePoints = <<>>

\* C30: every change a UI handler of the annotation tool makes to a field of
\* the annotation record goes through a tag operation that pushes an inverse
\* action onto the undo stack, so that undoing as many times as the handler
\* pushed returns the record to its earlier value.
C30_ChangesGoThroughUndo ==
  [][last'.op # "undo" /\ Record(Store') # Record(Store)
       => /\ Len(undoStack') > Len(undoStack)
          /\ Record(UndoTimes(Store', Len(undoStack') - Len(undoStack))) = Record(Store)]_vars

\* ---- C31: the pose metrics on degenerate joints
\* the joints of frame f
JointsAt(f) ==
  [lHip |-> getKp(viewer, f, KP_LEFT_HIP), rHip |-> getKp(viewer, f, KP_RIGHT_HIP),
   lShoulder |-> getKp(viewer, f, KP_LEFT_SHOULDER),
   rShoulder |-> getKp(viewer, f, KP_RIGHT_SHOULDER)]

\* the hips or the shoulders coincide
CoincidentPair(f) ==
  JointsAt(f).lHip = JointsAt(f).rHip \/ JointsAt(f).lShoulder = JointsAt(f).rShoulder

\* the hip midpoint equals the shoulder midpoint
CoincidentMidpoints(f) ==
  \A c \in 1..3 :
    JointsAt(f).lHip[c] + JointsAt(f).rHip[c]
      = JointsAt(f).lShoulder[c] + JointsAt(f).rShoulder[c]

\* C31: when the joint configuration a metric needs is degenerate at a frame
\* (the hips coincide or the shoulders coincide for the separation, the hip
\* midpoint equals the shoulder midpoint for the back tilt), the series of
\* that metric holds 0 at the frame, and never NaN.
C31_DegenerateJointsGiveZero ==
  viewer.ready =>
    \A f \in 0..(viewer.metadata.frame_count - 1) :
      /\ CoincidentPair(f) => viewer.separationAngles.data[f + 1] = [degrees |-> 0]
      /\ CoincidentMidpoints(f) => viewer.backTiltAngles.data[f + 1] = [degrees |-> 0]

\* what does hold: on degenerate joints neither metric is NaN
C31_DegenerateJointsNeverNaN ==
  viewer.ready =>
    \A f \in 0..(viewer.metadata.frame_count - 1) :
      CoincidentPair(f) \/ CoincidentMidpoints(f)
        => /\ viewer.separationAngles.data[f + 1] # [degrees |-> NaN]
           /\ viewer.backTiltAngles.data[f + 1] # [degrees |-> NaN]

\* ---- C32: T0 and the turn boundaries
\* C32: throwStart is never an element of turnBoundaries, so every boundary
\* of turnBoundaries has a label W<k> or T<k>: getTurnLabel never returns
\* '?' for it.
C32_T0NotATurnBoundary ==
  /\ ~includes(turnBoundaries, throwStart)
  /\ \A i \in 1..Len(turnBoundaries) : getTurnLabel(Store, turnBoundaries[i]) # "?"

\* ---- C33: the stored documents
\* the document has a throw_start and a later release
ValidDocument(doc) ==
  /\ fromJ(get(doc, "throw_start")) # Null
  /\ fromJ(get(doc, "release")) # Null
  /\ fromJ(get(doc, "release")) > fromJ(get(doc, "throw_start"))

\* C33: every document present in the persistence backend has a non-null
\* throw_start and release with release > throw_start, and the backend
\* changes only when save() writes the payload of a record with T0 and a
\* later release: an invalid record never overwrites a stored document.
C33_StoredDocumentsValid ==
  /\ [](\A k \in DOMAIN localStorage :
          localStorage[k] # NullObj => ValidDocument(localStorage[k]))
  /\ [][localStorage' # localStorage
          => /\ last'.op = "save"
             /\ throwStart # Null /\ release # Null /\ release > throwStart
             /\ localStorage' = [localStorage EXCEPT ![StorageKey(_basename)]
                                                       = payload(Store)]]_vars

\* save() has just refused a record whose release is not after T0, and the
\* valid document of the earlier session is still the one stored
C33_Witness ==
  /\ last.op = "save"
  /\ last.ret = "error: Release must be after T0"
  /\ release <= throwStart
  /\ localStorage[StorageKey(_basename)] # NullObj
  /\ ValidDocument(localStorage[StorageKey(_basename)])
  /\ fromJ(get(localStorage[StorageKey(_basename)], "throw_start")) # throwStart

\* ---- C34: the dirty flag
\* the document stored for the video of the session
StoredDocument == localStorage[StorageKey(_basename)]

\* C34: whenever the dirty flag is false the annotation record in memory is
\* the one of the stored document, or the record is empty and nothing is
\* stored; every operation that changes a field of the record sets dirty, and
\* only a successful save or a load clears it.
C34_CleanMeansStored ==
  /\ [](~dirty => IF StoredDocument = NullObj
                    THEN Record(Store) = Record(ModuleInit(localStorage))
                    ELSE payload(Store) = StoredDocument)
  /\ [][/\ Record(Store') # Record(Store) /\ last'.op # "load" => dirty'
        /\ dirty /\ ~dirty' => \/ last'.op = "save" /\ last'.ret = "ok"
                               \/ last'.op = "load"]_vars

\* a record changed after the load has just been saved: it is clean and is
\* the stored document, which differs from the one the session found
C34_Witness ==
  /\ ~dirty
  /\ last.op = "save"
  /\ last.ret = "ok"
  /\ undoStack # <<>>
  /\ StoredDocument # NullObj
  /\ payload(Store) = StoredDocument
  /\ StoredDocument # EarlierSession(_basename)[StorageKey(_basename)]

\* ---- C35: the active timeline range
\* C35: in the annotation tool and in the 3D viewer the active timeline range
\* is well formed, min <= max, for every preset and every reachable
\* annotation or metadata state, and the cursor left by applyTimelineRange
\* lies inside [min, max].
C35_RangeWellFormed ==
  /\ AnnotOpen =>
       LET r == getTimelineRange(annot, Store)
           t == applyTimelineRange(annot, Store)
       IN  /\ r.min <= r.max
           /\ r.min <= t.currentFrame /\ t.currentFrame <= r.max
  /\ viewer.ready =>
       LET r == viewerGetTimelineRange(viewer)
           t == viewerApplyTimelineRange(viewer)
       IN  /\ r.min <= r.max
           /\ r.min <= t.currentFrame /\ t.currentFrame <= r.max

\* ---- C36: the cursor of the tagger app
\* C36: in the tagger app 0 <= currentFrame <= totalFrames - 1 holds after
\* any sequence of play/pause toggles, render ticks, steps, scrubs and
\* Home/End presses, for any video position reported by the video element;
\* and a render tick that finds playback at the last frame or the video ended
\* resets the cursor and the video to frame 0 and leaves the app playing.
C36_AppCursorInVideo ==
  app.videoReady =>
    /\ 0 <= app.currentFrame
    /\ app.currentFrame <= app.totalFrames - 1
    /\ (app.playing /\ app.videoFrame >= app.totalFrames - 1) =>
         LET t == appRenderLoop(app)
         IN  t.currentFrame = 0 /\ t.videoFrame = 0 /\ t.playing

\* ---- C37: the two marking modes
\* the entry a step pushed onto the undo stack, NullObj if it pushed none
Pushed(before, after) ==
  IF Len(after) = Len(before) + 1 THEN after[Len(after)] ELSE NullObj

\* C37: ballMode and circleZeroMode are never both true after any sequence of
\* toggleBallMode and toggleCircleZeroMode calls, and a canvas click in the
\* tagger adds a ball marker only while ballMode is true and sets the zero
\* point only while circleZeroMode is true.
C37_MarkingModesExclusive ==
  /\ [](~(ballMode /\ circleZeroMode))
  /\ [][last'.op = "canvasClick" =>
          /\ ballMarkers' # ballMarkers => ballMode
          /\ circleDegZero' # circleDegZero => circleZeroMode
          /\ Pushed(undoStack, undoStack') # NullObj =>
               /\ Pushed(undoStack, undoStack').type = "ball_add" => ballMode
               /\ Pushed(undoStack, undoStack').type = "circle_zero" => circleZeroMode
          /\ (~ballMode /\ ~circleZeroMode) => Record(Store') = Record(Store)]_vars

\* a canvas click in the 0-degree mode has just set the zero point and left
\* the mode, after a canvas click in ball mode had added a ball marker
C37_Witness ==
  /\ last.op = "canvasClick"
  /\ circleDegZero # NullObj
  /\ ~circleZeroMode
  /\ ~ballMode
  /\ ballMarkers # <<>>
  /\ Len(undoStack) = 2
  /\ undoStack[2].type = "circle_zero"

\* ---- C38: the transient states of the circle mode
\* C38: in the annotation tool, after any sequence of Place, Define, Accept
\* and Reset clicks, canvas clicks and mode switches, placingCircle and
\* definingCircle are never both true, and both are false whenever the active
\* mode is not the circle mode.
C38_CircleTransientsExclusive ==
  /\ ~(annot.placingCircle /\ annot.definingCircle)
  /\ annot.activeMode # "circle" => ~annot.placingCircle /\ ~annot.definingCircle

\* ---- C39: an accepted circle
\* C39: in the annotation tool, after any sequence of circle actions (place,
\* define, accept, reset, drag), tag-mode undo presses and the start-up load,
\* circleAccepted is true only while circleEllipse is not null; and a pointer
\* press inside an ellipse that exists and is not accepted starts a drag.
C39_AcceptedImpliesEllipse ==
  /\ annot.circleAccepted => circleEllipse # NullObj
  /\ (circleEllipse # NullObj /\ ~annot.circleAccepted /\ annot.activeMode = "circle") =>
       /\ ~annot.definingCircle
       /\ \A edge \in EdgeOutcomes :
            onPointerDown(annot, Store, circleEllipse.cx, circleEllipse.cy,
                          RingNumerics(Ring), edge).a.dragging # NullObj

\* ---- C40: a drag of the 0-degree label
\* the tool and the store after the drag in progress goes on through the
\* points of path and ends with pointer up
RECURSIVE DragAlong(_, _, _)
DragAlong(a, s, path) ==
  IF path = <<>> THEN onPointerUp(a, s, a.namespaceWritable, TRUE)
  ELSE LET r == onPointerMove(a, s, Head(path).x, Head(path).y, Undefined,
                              a.namespaceWritable)
       IN  DragAlong(r.a, r.s, Tail(path))

\* the paths of one or two pointer moves
DragPaths ==
  {<<p>> : p \in DragTargets} \cup {<<p, q>> : p \in DragTargets, q \in DragTargets}

\* C40: a completed drag of the 0-degree label (pointer down on the label,
\* any number of pointer moves, pointer up) is a single undo unit: the undo
\* stack grows by exactly one entry over the drag, and one undo() after it
\* restores circleZeroDegAngle to its value before the drag began.
C40_LabelDragIsOneUndoUnit ==
  (/\ last.op = "onPointerDown"
   /\ annot.dragging # NullObj
   /\ annot.dragging.type = "degLabel") =>
     \A path \in DragPaths :
       LET r == DragAlong(annot, Store, path)
       IN  /\ r.a.dragging = NullObj
           /\ Len(r.s.undoStack) = Len(undoStack) + 1
           /\ undo(r.s).circleZeroDegAngle = circleZeroDegAngle

====
